---- MODULE Spec2Model ----
(***************************************************************************)
(* Incremental synchronization engine of port-labs/incremental-sync.        *)
(*                                                                         *)
(* One run of an orchestrator (main): discover the subscriptions, chunk     *)
(* them, and for every chunk page through the resource graph with           *)
(* AzureClient.run_query, turning every page into send_webhook_data calls   *)
(* that share the PortClient semaphore.                                     *)
(*                                                                         *)
(*   variant = "integration": integrations/azure_incremental/src            *)
(*             (Resources / ResourceContainers, sync_full, sync_incremental)*)
(*   variant = "webhook":     azure-incremental/src/main.py                 *)
(*             (upsert_subscriptions, process_change_items)                 *)
(*   variant = "stateful":    azure/src/main.py                             *)
(*             (initialize_state, upsert_resources_groups)                  *)
(***************************************************************************)
EXTENDS Integers, Sequences, FiniteSets, TLC

(***************************************************************************)
(* Bounds of the model.  WaveSize, LimiterCapacity and LimiterRefillRate     *)
(* stand for the literals 100, 250 and 25 of the source, scaled down so     *)
(* that a page spans several waves and the token bucket runs dry within a   *)
(* short run.  MaxSubs subscriptions are discovered (or none), a query      *)
(* returns at most MaxPages pages of at most MaxPageLen records, and at     *)
(* most MaxFailures POSTs of one gather fail.                               *)
(***************************************************************************)
MaxSubs == 2
MaxPages == 2
MaxPageLen == 3
MaxFailures == 1
WaveSize == 2
LimiterCapacity == 1
LimiterRefillRate == 1

\* bounds of the limiter taken on its own: capacities, refill rates, amounts
\* asked for (down to -MaxAmount), clock values and calls per limiter
MaxCapacity == 3
MaxRate == 2
MaxAmount == 2
MaxTime == 2
MaxConsumes == 3

\* bounds of the chunking taken on its own: lengths and elements of the
\* sequences, chunk sizes (down to -1)
MaxSeqLen == 4
MaxElement == 2
MaxChunkSize == 5

\* the entries of one map of a tag filter set
MaxEntries == 2

\* asyncio.Semaphore(100): the same literal as the wave size of the services
SemaphoreSize == WaveSize

None == "None"

\* a setting that was not given: Optional[str] = None
Unset == [set |-> FALSE, text |-> <<>>]

\* no state entity in Port yet: retrieve_data answers 404
Absent == "absent"

\* the most coroutines one page or one subscription chunk can create
MaxTasks == IF MaxPageLen > MaxSubs THEN MaxPageLen ELSE MaxSubs

Min(a, b) == IF a < b THEN a ELSE b

Max(a, b) == IF a > b THEN a ELSE b

\* the continuation token the backend hands out with its i-th response when
\* more pages follow; the backend never hands out the same token twice
TokenOf(i) == IF i = 1 THEN "skip-token-1"
              ELSE IF i = 2 THEN "skip-token-2"
              ELSE IF i = 3 THEN "skip-token-3"
              ELSE "skip-token-4"

Tokens == {TokenOf(i) : i \in 1..MaxPages}

\* properties.changeType of a change record; anything but "Delete" is an upsert
ChangeTypes == {"Create", "Update", "Delete"}

RECURSIVE SeqsUpTo(_, _)
SeqsUpTo(S, n) ==
    IF n = 0 THEN {<<>>}
    ELSE LET shorter == SeqsUpTo(S, n - 1)
         IN  shorter \cup {Append(s, x) : s \in {t \in shorter : Len(t) = n - 1}, x \in S}

\* A page of records.  The queries summarize by resourceId, so the ids of one
\* page are distinct: the record at position k carries resourceId k.
PageOf(cts) == [k \in 1..Len(cts) |-> [resourceId |-> k, changeType |-> cts[k]]]

\* The pages the backend may answer with: up to MaxPageLen records whose
\* change types are Create or Delete, the first one possibly an Update.
Pages == {PageOf(cts) : cts \in {c \in SeqsUpTo(ChangeTypes, MaxPageLen) :
                                     \A k \in 2..Len(c) : c[k] # "Update"}}

\* The result of one HTTP POST of the webhook client: a response of some
\* status class is returned, or the transport raises (httpx.HTTPError).
ResponseOutcomes == {"ok", "server_error", "client_error"}

RaiseOutcomes == {"network_error"}

Outcomes == ResponseOutcomes \cup RaiseOutcomes

(***************************************************************************)
(* utils.turn_sequence_to_chunks                                           *)
(***************************************************************************)
\* Python's sequence[start:end] for any integers start and end
PySliceIndex(len, i) == IF i < 0 THEN Max(len + i, 0) ELSE Min(i, len)

PySlice(sequence, start, end) ==
    SubSeq(sequence, PySliceIndex(Len(sequence), start) + 1,
                     PySliceIndex(Len(sequence), end))

\* a loop that only yields the chunks that are full
RECURSIVE ChunkLoop_full_chunks_only(_, _, _, _)
ChunkLoop_full_chunks_only(sequence, chunk_size, start, end) ==
    IF end <= Len(sequence) /\ PySlice(sequence, start, end) # <<>>
    THEN <<PySlice(sequence, start, end)>>
         \o ChunkLoop_full_chunks_only(sequence, chunk_size,
                                       start + chunk_size, end + chunk_size)
    ELSE <<>>

RECURSIVE ChunkLoop(_, _, _, _)
ChunkLoop(sequence, chunk_size, start, end) ==
    IF start <= Len(sequence) /\ PySlice(sequence, start, end) # <<>>
    THEN <<PySlice(sequence, start, end)>>
         \o ChunkLoop(sequence, chunk_size, start + chunk_size, end + chunk_size)
    ELSE <<>>

\* a chunking that looks at the chunk size only when it is positive and
\* yields nothing for an empty sequence
turn_sequence_to_chunks_guarded(sequence, chunk_size) ==
    IF sequence = <<>> THEN <<>>
    ELSE IF chunk_size <= 0 \/ chunk_size >= Len(sequence)
    THEN <<sequence>>
    ELSE ChunkLoop(sequence, chunk_size, 0, chunk_size)

\* a chunking without the return after its first yield
turn_sequence_to_chunks_falls_through(sequence, chunk_size) ==
    (IF chunk_size >= Len(sequence) THEN <<sequence>> ELSE <<>>)
    \o ChunkLoop(sequence, chunk_size, 0, chunk_size)

turn_sequence_to_chunks(sequence, chunk_size) ==
    IF chunk_size >= Len(sequence)
    THEN <<sequence>>
    ELSE ChunkLoop(sequence, chunk_size, 0, chunk_size)

(***************************************************************************)
(* The tag filter builders of the services.  A text is the sequence of its  *)
(* characters; the fixed parts of the f-strings, which hold no quote, are   *)
(* kept in one piece each.                                                  *)
(***************************************************************************)
Quote == "'"

\* an escaping that leaves the text as it is
escape_quotes_forgotten(text) == text

\* key.replace("'", "''"), value.replace("'", "''")
RECURSIVE escape_quotes(_)
escape_quotes(text) ==
    IF text = <<>> THEN <<>>
    ELSE (IF Head(text) = Quote THEN <<Quote, Quote>> ELSE <<Head(text)>>)
         \o escape_quotes(Tail(text))

\* separator.join(parts)
RECURSIVE join(_, _)
join(separator, parts) ==
    IF parts = <<>> THEN <<>>
    ELSE IF Len(parts) = 1 THEN parts[1]
    ELSE parts[1] \o <<separator>> \o join(separator, Tail(parts))

\* f"tostring(tags['{escaped_key}']) =~ '{escaped_value}'", on the column
\* tags (containers) or rgTags (resources)
condition(column, entry) ==
    <<"tostring(", column, "[", Quote>> \o escape_quotes(entry.key)
        \o <<Quote, "])", " =~ ", Quote>> \o escape_quotes(entry.value)
        \o <<Quote>>

\* "for key, value in ....items(): ....append(...)"
conditions_of(column, items_) ==
    [i \in 1..Len(items_) |-> condition(column, items_[i])]

\* a has_filters that looks at include only
has_filters_include_only(f) == f.include # <<>>

\* ResourceGroupTagFilters.has_filters
has_filters(f) == f.include # <<>> \/ f.exclude # <<>>

\* a loop that keeps the condition of the latest entry only
include_clause_latest_only(include_conditions) ==
    <<"(">> \o include_conditions[Len(include_conditions)] \o <<")">>

\* f"({include_clause})" with include_clause = " and ".join(include_conditions)
include_clause(include_conditions) ==
    <<"(">> \o join(" and ", include_conditions) \o <<")">>

\* the exclude conditions joined as the include conditions are
exclude_clause_joined_with_and(exclude_conditions) ==
    <<"not (">> \o join(" and ", exclude_conditions) \o <<")">>

\* f"not ({exclude_clause})" with exclude_clause = " or ".join(exclude_conditions)
exclude_clause(exclude_conditions) ==
    <<"not (">> \o join(" or ", exclude_conditions) \o <<")">>

build_rg_tag_filter_clause_for_containers(f) ==
    IF ~has_filters(f) THEN <<>>
    ELSE LET include_conditions == conditions_of("tags", f.include)
             exclude_conditions == conditions_of("tags", f.exclude)
             conditions ==
                 (IF f.include # <<>> /\ include_conditions # <<>>
                  THEN <<include_clause(include_conditions)>> ELSE <<>>)
                 \o (IF f.exclude # <<>> /\ exclude_conditions # <<>>
                     THEN <<exclude_clause(exclude_conditions)>> ELSE <<>>)
         IN  IF conditions = <<>> THEN <<>>
             ELSE <<"| where ">> \o join(" and ", conditions)

(***************************************************************************)
(* How the query language reads such a text: a string literal runs from a   *)
(* quote to the next quote that is not doubled, a doubled quote standing    *)
(* for one quote; "and" binds tighter than "or"; tags[key] of a missing tag *)
(* is the empty string; =~ compares without regard to case.  A condition    *)
(* is read as the set of the rows, each given by its tags, that satisfy it. *)
(***************************************************************************)
\* tag keys, one of them with a quote, and tag values, one in upper case and
\* one with a quote
TagKeys == {<<"k">>, <<"K">>, <<"k", Quote>>}

TagValues == {<<"V">>, <<Quote, "w">>}

\* the tags of a resource group: some of the keys, each with a value
RowValues == {<<"v">>, <<Quote, "w">>}

TagAssignments == UNION {[keys -> RowValues] : keys \in SUBSET TagKeys}

Failed == [ok |-> FALSE, value |-> {}, next |-> 0]

\* the literal whose opening quote is at position i - 1
RECURSIVE read_literal(_, _, _)
read_literal(text, i, read) ==
    IF i > Len(text) THEN Failed
    ELSE IF text[i] = Quote
    THEN IF i + 1 <= Len(text) /\ text[i + 1] = Quote
         THEN read_literal(text, i + 2, Append(read, Quote))
         ELSE [ok |-> TRUE, value |-> read, next |-> i + 1]
    ELSE read_literal(text, i + 1, Append(read, text[i]))

Is(text, i, piece) == i <= Len(text) /\ text[i] = piece

LowerChar(c) == IF c = "K" THEN "k" ELSE IF c = "V" THEN "v" ELSE IF c = "W" THEN "w" ELSE c

Lower(text) == [i \in DOMAIN text |-> LowerChar(text[i])]

\* tostring(tags[key]): the value of the tag, or the empty string
TagValue(tags, key) == IF key \in DOMAIN tags THEN tags[key] ELSE <<>>

\* tostring(column['key']) =~ 'value' at position i
read_condition(text, i, column) ==
    IF ~(Is(text, i, "tostring(") /\ Is(text, i + 1, column)
            /\ Is(text, i + 2, "[") /\ Is(text, i + 3, Quote))
    THEN Failed
    ELSE LET key == read_literal(text, i + 4, <<>>)
         IN  IF ~(key.ok /\ Is(text, key.next, "])") /\ Is(text, key.next + 1, " =~ ")
                     /\ Is(text, key.next + 2, Quote))
             THEN Failed
             ELSE LET value == read_literal(text, key.next + 3, <<>>)
                  IN  IF ~value.ok THEN Failed
                      ELSE [ok |-> TRUE,
                            value |-> {tags \in TagAssignments :
                                         Lower(TagValue(tags, key.value))
                                             = Lower(value.value)},
                            next |-> value.next]

RECURSIVE read_or(_, _, _)
RECURSIVE read_and(_, _, _)
RECURSIVE read_operand(_, _, _)
\* an operand: a condition, "(" expression ")" or "not (" expression ")"
read_operand(text, i, column) ==
    IF Is(text, i, "(") \/ Is(text, i, "not (")
    THEN LET inner == read_or(text, i + 1, column)
         IN  IF ~(inner.ok /\ Is(text, inner.next, ")")) THEN Failed
             ELSE [ok |-> TRUE,
                   value |-> IF text[i] = "(" THEN inner.value
                             ELSE TagAssignments \ inner.value,
                   next |-> inner.next + 1]
    ELSE read_condition(text, i, column)

\* operand and operand and ...
read_and(text, i, column) ==
    LET left == read_operand(text, i, column)
    IN  IF left.ok /\ Is(text, left.next, " and ")
        THEN LET right == read_and(text, left.next + 1, column)
             IN  IF ~right.ok THEN Failed
                 ELSE [ok |-> TRUE, value |-> left.value \cap right.value,
                       next |-> right.next]
        ELSE left

\* conjunction or conjunction or ...
read_or(text, i, column) ==
    LET left == read_and(text, i, column)
    IN  IF left.ok /\ Is(text, left.next, " or ")
        THEN LET right == read_or(text, left.next + 1, column)
             IN  IF ~right.ok THEN Failed
                 ELSE [ok |-> TRUE, value |-> left.value \cup right.value,
                       next |-> right.next]
        ELSE left

\* the whole fragment is "| where" and one expression
WellFormed(text, column) ==
    /\ Is(text, 1, "| where ")
    /\ LET whole == read_or(text, 2, column)
       IN  whole.ok /\ whole.next = Len(text) + 1

\* the rows that pass the query the fragment is spliced into: the empty
\* fragment filters nothing
Passing(text, column) ==
    IF text = <<>> THEN TagAssignments
    ELSE read_or(text, 2, column).value

Passes(text, column, tags) == tags \in Passing(text, column)

(***************************************************************************)
(* rate_limiter.TokenBucketRateLimiter (its module is not part of the       *)
(* sources; modelled from section 4.1 of the specification)                *)
(***************************************************************************)
\* a refill that forgets the time elapsed
refill_tokens_without_elapsed(tok, dt, cap, rate) == Min(cap, tok)

\* a refill that forgets the ceiling
refill_tokens_unclamped(tok, dt, cap, rate) == tok + dt * rate

\* tokens = min(capacity, tokens + elapsed * refill_rate)
refill_tokens(tok, dt, cap, rate) == Min(cap, tok + dt * rate)

\* an admission check that wants more tokens than asked for
consume_tokens_strict(tok, dt, n, cap, rate) ==
    LET refilled == refill_tokens(tok, dt, cap, rate)
    IN  IF refilled > n
        THEN [tokens |-> refilled - n, admitted |-> TRUE]
        ELSE [tokens |-> refilled, admitted |-> FALSE]

\* a consume that turns down the amounts below zero
consume_tokens_rejects_negative(tok, dt, n, cap, rate) ==
    LET refilled == refill_tokens(tok, dt, cap, rate)
    IN  IF n >= 0 /\ refilled >= n
        THEN [tokens |-> refilled - n, admitted |-> TRUE]
        ELSE [tokens |-> refilled, admitted |-> FALSE]

\* a consume that takes the tokens without looking at what is left
consume_tokens_unchecked(tok, dt, n, cap, rate) ==
    LET refilled == refill_tokens(tok, dt, cap, rate)
    IN  [tokens |-> refilled - n, admitted |-> TRUE]

\* consume(n) of a limiter of capacity cap and refill rate rate, dt after its
\* last refill: refill, then admit iff enough tokens are left
consume_tokens(tok, dt, n, cap, rate) ==
    LET refilled == refill_tokens(tok, dt, cap, rate)
    IN  IF refilled >= n
        THEN [tokens |-> refilled - n, admitted |-> TRUE]
        ELSE [tokens |-> refilled, admitted |-> FALSE]

\* the limiter of AzureClient
Refill(tok, dt) == refill_tokens(tok, dt, LimiterCapacity, LimiterRefillRate)

consume(tok, dt, n) == consume_tokens(tok, dt, n, LimiterCapacity, LimiterRefillRate)

(***************************************************************************)
(* AzureClient                                                             *)
(***************************************************************************)
\* a _handle_rate_limit without its sleep; C7_OneConsumePerCall fails with it
handle_rate_limit_never_sleeps(success) == FALSE

\* _handle_rate_limit: sleeps one second iff the consume was rejected
handle_rate_limit_sleeps(success) == ~success

\* a request that drops the cursor; C9_CursorThreading fails with it
QueryRequest_without_cursor(subs, q, token) ==
    [subscriptions |-> subs, query |-> q, skip_token |-> None]

\* the request built at the top of the run_query loop
QueryRequest(subs, q, token) ==
    [subscriptions |-> subs, query |-> q, skip_token |-> token]

\* yield response.data
yield_value(resp) == resp.data

\* skip_token = response.skip_token
next_skip_token(resp) == resp.skip_token

\* the break taken on the opposite condition; C8_PagesUntilNoCursor fails
\* with it
run_query_breaks_inverted(token) == token # None

\* "if not skip_token: break"
run_query_breaks(token) == token = None

\* get_all_subscriptions: one consume(1) per listed subscription, each
\* followed by the one second sleep when it was rejected
RECURSIVE DiscoverLimiter(_, _, _)
DiscoverLimiter(tok, dt, n) ==
    IF n = 0 THEN tok
    ELSE LET c == consume(tok, dt, 1)
         IN  DiscoverLimiter(c.tokens,
                             IF handle_rate_limit_sleeps(c.admitted) THEN 1 ELSE 0,
                             n - 1)

(***************************************************************************)
(* PortClient and the services                                             *)
(***************************************************************************)
\* a semaphore that admits every caller; C4_InFlightBounded fails with it
semaphore_free_always(p) == TRUE

\* "async with self.semaphore" admits the caller while a permit is left
semaphore_free(p) == p > 0

\* operation of Resources.sync_incremental / ResourceContainers.sync_incremental
incremental_operation(item) ==
    IF item.changeType # "Delete" THEN "upsert" ELSE "delete"

\* a sync_full that looks at changeType as sync_incremental does
full_operation_by_change_type(item) ==
    IF item.changeType = "Delete" THEN "delete" ELSE "upsert"

\* operation of sync_full
full_operation(item) == "upsert"

\* "if len(tasks) == 100" in the dispatch loops
wave_full(n) == n = WaveSize

\* a gather that returns at once; C11_PageBackpressure fails with it
gather_returns_at_once(ts) == TRUE

\* asyncio.gather returns once every awaitable has returned
gather_complete(ts) == \A k \in DOMAIN ts : ts[k].st = "returned"

\* the coroutine object created by one send_webhook_data(...) call
send_webhook_data(data, id, operation, type, w) ==
    [id |-> id, operation |-> operation, type |-> type, wave |-> w,
     st |-> "created", attempts |-> 0, outcome |-> None]

\* what one send_webhook_data(...) call was made with
delivery_call(t) ==
    [id |-> t.id, operation |-> t.operation, type |-> t.type, wave |-> t.wave]

\* a handler that swallows the error and goes on with the next chunk;
\* C10_QueryErrorAborts fails with it
on_query_error_swallowed == "batches"

\* no handler stands between a raising remote query and asyncio.run
on_query_error == "aborted"

\* no handler stands between a raising delivery and asyncio.run
on_delivery_error == "aborted"

\* entity type sent by each service
ServiceType(svc) == IF svc = "resources" THEN "resource" ELSE "resourceContainer"

VARIABLES
    variant,                  \* which orchestrator runs
    SYNC_MODE,                \* app_settings.SYNC_MODE
    SUBSCRIPTION_BATCH_SIZE,  \* app_settings.SUBSCRIPTION_BATCH_SIZE
    RESOURCE_GROUP_TAG_FILTERS,  \* app_settings.RESOURCE_GROUP_TAG_FILTERS
    pc,                       \* position of the main coroutine
    abortCause,               \* what raised out of main, if anything
    all_subscriptions,        \* result of get_all_subscriptions
    subscription_upserts,     \* the subscriptions upsert_subscriptions was called with
    subscriptions_batches,    \* chunks not yet taken by the for loop
    subscriptions,            \* the chunk being processed
    service,                  \* "resources" / "resourceContainers" / None
    skip_token, query, request, response,   \* locals of run_query
    tokens,                   \* the tokens left in the rate limiter
    consumes, admitted, sleeps,  \* what preceded the latest remote call: the
                              \* consume(1) calls, the result of the last one
                              \* and the one second sleeps (cleared when the
                              \* consumer takes the page)
    items, idx, wave, tasks,  \* the page, the loop index, the awaited gather
    permits,                  \* PortClient.semaphore
    calls, returned, nYields, \* history of the running run_query invocation:
                              \* the requests sent, the tokens returned,
                              \* the number of pages yielded
    deliveries,               \* the send_webhook_data calls made for the page
                              \* (or the subscription chunk) being processed
    port_state,               \* properties.value of the state entity kept in Port
    state,                    \* main's local state: what initialize_state returned
    runs,                     \* how many times main has been started
    capacity, refill_rate,    \* a limiter taken on its own: its parameters,
    last_refill_time, now,    \* the time of its last refill, the clock,
    amount,                   \* the n of its latest consume(n),
    spent,                    \* and the sum of the amounts it admitted
    backend,                  \* the pages a fixed backend holds for a query,
                              \* in the order of its continuation tokens
    initialized,              \* AzureClient.__aenter__ has set the clients
    filters,                  \* a ResourceGroupTagFilters: include and exclude,
                              \* each the items of a dict in insertion order
    exclude_flag,             \* the argument exclude of build_rg_tag_filter_clause
    fragment                  \* the text a filter builder returned

vars == <<variant, SYNC_MODE, SUBSCRIPTION_BATCH_SIZE,
          RESOURCE_GROUP_TAG_FILTERS, pc, abortCause,
          all_subscriptions, subscription_upserts, subscriptions_batches,
          subscriptions, service,
          skip_token, query, request, response, tokens,
          consumes, admitted, sleeps, items, idx, wave, tasks, permits,
          calls, returned, nYields, deliveries,
          capacity, refill_rate, last_refill_time, now, amount, spent,
          backend, initialized, filters, exclude_flag, fragment,
          port_state, state, runs>>

bucketVars == <<capacity, refill_rate, last_refill_time, now, amount, spent>>

azureVars == <<backend, initialized>>

filterVars == <<filters, exclude_flag, fragment>>

settingsVars == <<variant, SYNC_MODE, SUBSCRIPTION_BATCH_SIZE,
                  RESOURCE_GROUP_TAG_FILTERS>>

portVars == <<port_state, state, runs>>

batchVars == <<all_subscriptions, subscription_upserts, subscriptions_batches,
               subscriptions>>

queryVars == <<skip_token, query, request, response>>

limiterVars == <<tokens, consumes, admitted, sleeps>>

pageVars == <<items, idx, wave>>

historyVars == <<calls, returned, nYields, deliveries>>

Variants == {"integration", "webhook"}

\* values of the locals of run_query before the first request is built
NoRequest == QueryRequest(<<>>, 0, None)

NoResponse == [data |-> <<>>, skip_token |-> None]

Modes == {"incremental", "full"}

\* ResourceGroupTagFilters(): include = {}, exclude = {}
NoFilters == [include |-> <<>>, exclude |-> <<>>]

Terminal == {"completed", "returned_empty", "aborted"}

InitWith(v, mode, pages, entered) ==
    /\ variant = v
    /\ SYNC_MODE = mode
    /\ RESOURCE_GROUP_TAG_FILTERS = Unset
    /\ SUBSCRIPTION_BATCH_SIZE \in {1, MaxSubs}
    /\ pc = "start"
    /\ abortCause = None
    /\ all_subscriptions = <<>> /\ subscription_upserts = <<>>
    /\ subscriptions_batches = <<>>
    /\ subscriptions = <<>>
    /\ service = None
    /\ skip_token = None /\ query = 0
    /\ request = NoRequest /\ response = NoResponse
    /\ tokens = LimiterCapacity
    /\ consumes = 0 /\ admitted = TRUE /\ sleeps = 0
    /\ items = <<>> /\ idx = 0 /\ wave = 0 /\ tasks = <<>>
    /\ permits = SemaphoreSize
    /\ calls = <<>> /\ returned = <<>> /\ nYields = 0 /\ deliveries = <<>>
    /\ capacity = LimiterCapacity /\ refill_rate = LimiterRefillRate
    /\ last_refill_time = 0 /\ now = 0 /\ amount = 0 /\ spent = 0
    /\ backend = pages /\ initialized = entered
    /\ filters = NoFilters /\ exclude_flag = FALSE /\ fragment = <<>>
    /\ port_state = Absent /\ state = None /\ runs = 1

\* main: the client is entered ("async with AzureClient()") before it is used
InitOf(v, mode) == InitWith(v, mode, <<>>, TRUE)

(***************************************************************************)
(* main: discovery and the loop over the subscription batches              *)
(***************************************************************************)
\* a fresh run_query generator: nothing has run yet, the body starts at the
\* first request for a page
\* a cursor that outlives the generator it belonged to
initial_skip_token_left_over(previous) == previous

\* "skip_token: str | None = None", a local of each generator
initial_skip_token(previous) == None

OpenQuery(svc) ==
    /\ service' = svc
    /\ skip_token' = initial_skip_token(skip_token)
    /\ query' = 0
    /\ request' = NoRequest
    /\ response' = NoResponse
    /\ consumes' = 0 /\ sleeps' = 0 /\ admitted' = TRUE
    /\ calls' = <<>> /\ returned' = <<>> /\ nYields' = 0 /\ deliveries' = <<>>
    /\ items' = <<>> /\ idx' = 0 /\ wave' = 0

\* a main that goes on to the chunks whatever was discovered
no_subscriptions_ignored(subs) == FALSE

\* "if not all_subscriptions: ...; return"
no_subscriptions(subs) == subs = <<>>

\* a client that goes on without looking at what __aenter__ has set
not_initialized_unchecked(entered) == FALSE

\* "if not self.subs_client", "if not self.resource_g_client": both are set
\* by __aenter__ only
not_initialized(entered) == ~entered

\* get_all_subscriptions on a client that was not entered:
\* raise ValueError("Azure client not initialized")
DiscoverNotInitialized ==
    /\ pc = "start"
    /\ not_initialized(initialized)
    /\ pc' = "aborted"
    /\ abortCause' = "Azure client not initialized"
    /\ UNCHANGED <<bucketVars, azureVars, filterVars, settingsVars, portVars, batchVars, service, queryVars,
                   limiterVars, pageVars, tasks, permits, historyVars>>

\* all_subscriptions = await azure_client.get_all_subscriptions()
\* "if not all_subscriptions: return", else the chunks are prepared
Discover(n) ==
    /\ pc = "start"
    /\ ~not_initialized(initialized)
    /\ all_subscriptions' = [k \in 1..n |-> k]
    /\ UNCHANGED subscription_upserts
    /\ tokens' = DiscoverLimiter(tokens, 0, n)
    /\ subscriptions_batches' =
           IF no_subscriptions(all_subscriptions') THEN <<>>
           ELSE turn_sequence_to_chunks(all_subscriptions', SUBSCRIPTION_BATCH_SIZE)
    /\ pc' = IF no_subscriptions(all_subscriptions') THEN "returned_empty"
             ELSE "batches"
    /\ UNCHANGED <<bucketVars, azureVars, filterVars, settingsVars, portVars, abortCause, subscriptions, service, queryVars,
                   consumes, admitted, sleeps, pageVars, tasks, permits, historyVars>>

\* the subscription listing raises
DiscoverRaises ==
    /\ pc = "start"
    /\ pc' = "aborted"
    /\ abortCause' = "discovery"
    /\ UNCHANGED <<bucketVars, azureVars, filterVars, settingsVars, portVars, batchVars, service, queryVars, limiterVars,
                   pageVars, tasks, permits, historyVars>>

\* "for subscriptions in subscriptions_batches": the next chunk, or the end
\* of main.  The integration starts with the resources of the chunk, the
\* webhook orchestrator with upsert_subscriptions.
NextBatch ==
    /\ pc = "batches"
    /\ subscriptions_batches # <<>>
    /\ subscriptions' = Head(subscriptions_batches)
    /\ subscriptions_batches' = Tail(subscriptions_batches)
    /\ IF variant = "integration"
       THEN /\ OpenQuery("resources")
            /\ tasks' = <<>>
            /\ pc' = "consume"
            /\ UNCHANGED subscription_upserts
       ELSE /\ subscription_upserts' = subscription_upserts \o subscriptions'
            /\ tasks' = [k \in 1..Len(subscriptions') |->
                           send_webhook_data(subscriptions'[k], subscriptions'[k],
                                             "upsert", "subscription", 1)]
            /\ deliveries' = [k \in DOMAIN tasks' |-> delivery_call(tasks'[k])]
            /\ wave' = 1
            /\ pc' = "gather_subs"
            /\ UNCHANGED <<service, queryVars, consumes, admitted, sleeps,
                           items, idx, calls, returned, nYields>>
    /\ UNCHANGED <<bucketVars, azureVars, filterVars, settingsVars, portVars, abortCause, all_subscriptions, tokens,
                   permits>>

\* the for loop is exhausted: "Azure to Port sync completed"
Complete ==
    /\ pc = "batches"
    /\ subscriptions_batches = <<>>
    /\ pc' = "completed"
    /\ UNCHANGED <<bucketVars, azureVars, filterVars, settingsVars, portVars, abortCause, batchVars, service, queryVars,
                   limiterVars, pageVars, tasks, permits, historyVars>>

\* the tasks the awaited gather runs
CurrentWave == SelectSeq(tasks, LAMBDA t : t.wave = wave)

\* await asyncio.gather(*tasks) of upsert_subscriptions returns; main goes on
\* to process_subscriptions_into_change_tasks
GatherSubsDone ==
    /\ pc = "gather_subs"
    /\ gather_complete(CurrentWave)
    /\ OpenQuery("resources")
    /\ tasks' = <<>>
    /\ pc' = "consume"
    /\ UNCHANGED <<bucketVars, azureVars, filterVars, settingsVars, portVars, abortCause, batchVars, tokens, permits>>

(***************************************************************************)
(* AzureClient.run_query, one action per suspension point                  *)
(***************************************************************************)
\* run_query is called on its own, without a discovery before it, on one
\* subscription: the generator is created, its body has not started
DirectQuery ==
    /\ pc = "start"
    /\ subscriptions' = <<1>>
    /\ OpenQuery("resources")
    /\ pc' = "consume"
    /\ UNCHANGED <<bucketVars, azureVars, filterVars, settingsVars, portVars, abortCause, all_subscriptions, subscription_upserts,
                   subscriptions_batches, tokens, tasks, permits>>

\* the first step of the generator on a client that was not entered:
\* raise ValueError("Azure client not initialized"), before the loop
QueryNotInitialized ==
    /\ pc = "consume"
    /\ query = 0
    /\ not_initialized(initialized)
    /\ pc' = "aborted"
    /\ abortCause' = "Azure client not initialized"
    /\ UNCHANGED <<bucketVars, azureVars, filterVars, settingsVars, portVars, batchVars, service, queryVars,
                   limiterVars, pageVars, tasks, permits, historyVars>>

\* top of the while loop: build the request (rebinding query), then
\* self._rate_limiter.consume(1), dt seconds after the limiter's last refill
QueryConsume(dt) ==
    /\ pc = "consume"
    /\ ~(query = 0 /\ not_initialized(initialized))
    /\ request' = QueryRequest(subscriptions, query, skip_token)
    /\ query' = query + 1
    /\ LET c == consume(tokens, dt, 1)
       IN  /\ tokens' = c.tokens
           /\ admitted' = c.admitted
           /\ pc' = IF handle_rate_limit_sleeps(c.admitted) THEN "sleep" ELSE "call"
    /\ consumes' = consumes + 1
    /\ UNCHANGED <<bucketVars, azureVars, filterVars, settingsVars, portVars, abortCause, batchVars, service, skip_token,
                   response, sleeps, pageVars, tasks, permits, historyVars>>

\* a rejection that gives the request up: the loop goes on to the cursor
\* without having called the backend
after_sleep_skips_call == "resume"

\* _handle_rate_limit has returned: the remote call is the next statement
after_sleep == "call"

\* _handle_rate_limit: await asyncio.sleep(1), then the remote call follows
QuerySleep ==
    /\ pc = "sleep"
    /\ sleeps' = sleeps + 1
    /\ pc' = after_sleep
    /\ UNCHANGED <<bucketVars, azureVars, filterVars, settingsVars, portVars, abortCause, batchVars, service, queryVars,
                   tokens, consumes, admitted, pageVars, tasks, permits,
                   historyVars>>

\* response = await self.resource_g_client.resources(query); yield response.data
\* The backend answers with any page, and with a fresh continuation token or
\* with none (none at the last page the model allows).
QueryCall(data, token) ==
    /\ pc = "call"
    /\ token \in {None, TokenOf(Len(calls) + 1)}
    /\ Len(calls) + 1 = MaxPages => token = None
    /\ calls' = Append(calls, request)
    /\ response' = [data |-> data, skip_token |-> token]
    /\ returned' = Append(returned, token)
    /\ items' = yield_value(response')
    /\ nYields' = nYields + 1
    /\ pc' = "page"
    /\ UNCHANGED <<bucketVars, azureVars, filterVars, settingsVars, portVars, abortCause, batchVars, service, skip_token,
                   query, request, limiterVars, idx, wave, tasks, permits,
                   deliveries>>

\* the remote call raises: nothing catches it up to asyncio.run
QueryRaises ==
    /\ pc = "call"
    /\ calls' = Append(calls, request)
    /\ pc' = on_query_error
    /\ abortCause' = IF pc' = "aborted" THEN "query" ELSE abortCause
    /\ UNCHANGED <<bucketVars, azureVars, filterVars, settingsVars, portVars, batchVars, service, queryVars, limiterVars,
                   pageVars, tasks, permits, returned, nYields, deliveries>>

\* the consumer asks for the next page: the generator resumes after the yield,
\* skip_token = response.skip_token, "if not skip_token: break".  When the
\* generator is exhausted the integration goes on to the resource containers
\* of the chunk and then to the next chunk.
GenResume ==
    /\ pc = "resume"
    /\ IF ~run_query_breaks(next_skip_token(response))
       THEN /\ skip_token' = next_skip_token(response)
            /\ pc' = "consume"
            /\ UNCHANGED <<service, query, request, response, consumes, admitted,
                           sleeps, pageVars, historyVars>>
       ELSE IF variant = "integration" /\ service = "resources"
       THEN /\ OpenQuery("resourceContainers")
            /\ pc' = "consume"
       ELSE /\ skip_token' = next_skip_token(response)
            /\ pc' = "batches"
            /\ UNCHANGED <<service, query, request, response, consumes, admitted,
                           sleeps, pageVars, historyVars>>
    /\ tasks' = <<>>
    /\ UNCHANGED <<bucketVars, azureVars, filterVars, settingsVars, portVars, abortCause, batchVars, tokens, permits>>

(***************************************************************************)
(* The consumers of a page                                                 *)
(***************************************************************************)
\* operation chosen by the running sync of the integration
page_operation(item) ==
    IF SYNC_MODE = "incremental" THEN incremental_operation(item)
    ELSE full_operation(item)

\* a dispatch loop that appends nothing; C12_RunCompletes fails with it
TakeCount_nothing(remaining) == 0

\* number of items the dispatch loop appends before it awaits a gather: up to
\* the first length at which the wave is full, else all that are left
TakeCount(remaining) ==
    IF \E n \in 1..remaining : wave_full(n)
    THEN CHOOSE n \in 1..remaining :
             wave_full(n) /\ \A m \in 1..(n - 1) : ~wave_full(m)
    ELSE remaining

\* the two gathers in the other order: the deletes of a page go first
process_change_items_deletes_first(its) ==
    [k \in 1..Len(its) |->
        IF its[k].changeType = "Delete"
        THEN send_webhook_data(its[k], its[k].resourceId, "delete", "resource", 1)
        ELSE send_webhook_data(its[k], its[k].resourceId, "upsert", "resource", 2)]

\* process_change_items of the webhook orchestrator: one coroutine per item,
\* collected in upsert_tasks (gathered first) or delete_tasks (gathered second)
process_change_items(its) ==
    [k \in 1..Len(its) |->
        IF its[k].changeType = "Delete"
        THEN send_webhook_data(its[k], its[k].resourceId, "delete", "resource", 2)
        ELSE send_webhook_data(its[k], its[k].resourceId, "upsert", "resource", 1)]

\* a "return" in the place of the "continue": the page without records ends
\* the sync of the chunk
empty_page_returns == "batches"

\* "if not items: continue": the loop asks the generator for its next page
empty_page_continues == "resume"

\* the body of "async for items in run_query(...)" receives the page:
\* "if not items: continue"; otherwise the dispatch starts
ProcessPage ==
    /\ pc = "page"
    /\ IF items = <<>>
       THEN /\ pc' = empty_page_continues
            /\ UNCHANGED <<idx, wave, tasks>>
       ELSE IF variant = "integration"
       THEN /\ tasks' = <<>>
            /\ idx' = 0
            /\ wave' = 0
            /\ pc' = "build"
       ELSE /\ tasks' = process_change_items(items)
            /\ idx' = Len(items)
            /\ wave' = 1
            /\ pc' = "gather_upserts"
    /\ deliveries' = [k \in DOMAIN tasks' |-> delivery_call(tasks'[k])]
    /\ consumes' = 0 /\ admitted' = TRUE /\ sleeps' = 0
    /\ UNCHANGED <<bucketVars, azureVars, filterVars, settingsVars, portVars, abortCause, batchVars, service, queryVars,
                   tokens, items, permits, calls, returned, nYields>>

\* sync_full / sync_incremental: "for item in items: tasks.append(...)" runs
\* without suspension up to "if len(tasks) == 100: await asyncio.gather(*tasks)"
\* or, at the end of the items, up to the final "await asyncio.gather(*tasks)"
BuildWave ==
    /\ pc = "build"
    /\ LET n == TakeCount(Len(items) - idx)
       IN  /\ tasks' = tasks \o
                  [k \in 1..n |->
                      send_webhook_data(items[idx + k], items[idx + k].resourceId,
                                        page_operation(items[idx + k]),
                                        ServiceType(service), wave + 1)]
           /\ idx' = idx + n
           /\ pc' = IF n >= 1 /\ wave_full(n) THEN "gather_loop" ELSE "gather_final"
    /\ deliveries' = deliveries \o
           [k \in 1..(Len(tasks') - Len(tasks)) |-> delivery_call(tasks'[Len(tasks) + k])]
    /\ wave' = wave + 1
    /\ UNCHANGED <<bucketVars, azureVars, filterVars, settingsVars, portVars, abortCause, batchVars, service, queryVars,
                   limiterVars, items, permits, calls, returned, nYields>>

\* a gather of the dispatch loop returns: "tasks = []" and the loop goes on,
\* or, after the final gather, the next page is asked for
GatherDone ==
    /\ pc \in {"gather_loop", "gather_final"}
    /\ gather_complete(CurrentWave)
    /\ tasks' = IF pc = "gather_loop" THEN <<>> ELSE tasks
    /\ pc' = IF pc = "gather_loop" THEN "build" ELSE "resume"
    /\ UNCHANGED <<bucketVars, azureVars, filterVars, settingsVars, portVars, abortCause, batchVars, service, queryVars,
                   limiterVars, pageVars, permits, historyVars>>

\* webhook orchestrator: await asyncio.gather(*upsert_tasks) returns
GatherUpsertsDone ==
    /\ pc = "gather_upserts"
    /\ gather_complete(CurrentWave)
    /\ wave' = 2
    /\ pc' = "gather_deletes"
    /\ UNCHANGED <<bucketVars, azureVars, filterVars, settingsVars, portVars, abortCause, batchVars, service, queryVars,
                   limiterVars, items, idx, tasks, permits, historyVars>>

\* webhook orchestrator: await asyncio.gather(*delete_tasks) returns
GatherDeletesDone ==
    /\ pc = "gather_deletes"
    /\ gather_complete(CurrentWave)
    /\ pc' = "resume"
    /\ UNCHANGED <<bucketVars, azureVars, filterVars, settingsVars, portVars, abortCause, batchVars, service, queryVars,
                   limiterVars, pageVars, tasks, permits, historyVars>>

(***************************************************************************)
(* PortClient.send_webhook_data, one action per suspension point           *)
(***************************************************************************)
GatherPcs == {"gather_subs", "gather_loop", "gather_final",
              "gather_upserts", "gather_deletes"}

\* the tasks a gather has scheduled keep running after the gather has raised
Scheduled(k) == tasks[k].wave = wave /\ pc \in GatherPcs \cup {"aborted"}

\* pending deliveries whose POST did not succeed
Failures == Cardinality({k \in DOMAIN tasks : tasks[k].outcome \notin {None, "ok"}})

\* a semaphore that is not given back what was taken from it
semaphore_exit_keeps_permit(p) == p

\* leaving "async with self.semaphore", by return or by exception
semaphore_exit(p) == p + 1

\* "async with self.semaphore" is entered and http_client.post is called
TaskAcquire(k) ==
    /\ k \in DOMAIN tasks
    /\ Scheduled(k)
    /\ tasks[k].st = "created"
    /\ semaphore_free(permits)
    /\ permits' = permits - 1
    /\ tasks' = [tasks EXCEPT ![k].st = "inflight", ![k].attempts = @ + 1]
    /\ UNCHANGED <<bucketVars, azureVars, filterVars, settingsVars, portVars, pc, abortCause, batchVars, service, queryVars,
                   limiterVars, pageVars, historyVars>>

\* a send_webhook_data that posts again after any response but a success
after_post_response_retries(outcome) ==
    IF outcome = "ok" THEN "returned" ELSE "created"

\* what becomes of the call once http_client.post has returned a response:
\* whatever the status, "async with" is left and send_webhook_data returns
after_post_response(outcome) == "returned"

\* http_client.post returns a response; the response is not inspected, the
\* semaphore is released and send_webhook_data returns
TaskPostReturns(k, outcome) ==
    /\ k \in DOMAIN tasks
    /\ tasks[k].st = "inflight"
    /\ outcome \in ResponseOutcomes
    /\ outcome # "ok" => Failures < MaxFailures
    /\ permits' = semaphore_exit(permits)
    /\ tasks' = [tasks EXCEPT ![k].st = after_post_response(outcome),
                              ![k].outcome = outcome]
    /\ UNCHANGED <<bucketVars, azureVars, filterVars, settingsVars, portVars, pc, abortCause, batchVars, service, queryVars,
                   limiterVars, pageVars, historyVars>>

\* http_client.post raises: the semaphore is released, the exception leaves
\* send_webhook_data, the awaiting gather re-raises it at once and nothing
\* catches it up to asyncio.run
TaskPostRaises(k, outcome) ==
    /\ k \in DOMAIN tasks
    /\ tasks[k].st = "inflight"
    /\ outcome \in RaiseOutcomes
    /\ Failures < MaxFailures
    /\ permits' = semaphore_exit(permits)
    /\ tasks' = [tasks EXCEPT ![k].st = "raised", ![k].outcome = outcome]
    /\ IF pc \in GatherPcs
       THEN /\ pc' = on_delivery_error
            /\ abortCause' = IF pc' = "aborted" THEN "delivery" ELSE abortCause
       ELSE UNCHANGED <<pc, abortCause>>
    /\ UNCHANGED <<bucketVars, azureVars, filterVars, settingsVars, portVars, batchVars, service, queryVars,
                   limiterVars, pageVars, historyVars>>

Unfinished(t) == t.st \in {"created", "inflight"}

\* asyncio.run tears the loop down after main has raised: what is still
\* pending is cancelled, and a cancelled holder gives its permit back
CancelAll ==
    /\ pc = "aborted"
    /\ \E k \in DOMAIN tasks : Unfinished(tasks[k])
    /\ permits' = permits + Cardinality({k \in DOMAIN tasks : tasks[k].st = "inflight"})
    /\ tasks' = [k \in DOMAIN tasks |->
                    IF Unfinished(tasks[k])
                    THEN [tasks[k] EXCEPT !.st = "cancelled"]
                    ELSE tasks[k]]
    /\ UNCHANGED <<bucketVars, azureVars, filterVars, settingsVars, portVars, pc, abortCause, batchVars, service, queryVars,
                   limiterVars, pageVars, historyVars>>

(***************************************************************************)
(* A TokenBucketRateLimiter taken on its own: any capacity and refill rate, *)
(* any amounts, a clock that never runs backwards                          *)
(***************************************************************************)
\* the amounts asked for: negative, zero, up to more than any capacity
Amounts == (0 - MaxAmount)..(MaxCapacity + 1)

\* TokenBucketRateLimiter(capacity, refill_rate): the bucket starts full
InitLimiter ==
    /\ variant = "limiter"
    /\ SYNC_MODE = "incremental"
    /\ RESOURCE_GROUP_TAG_FILTERS = Unset
    /\ SUBSCRIPTION_BATCH_SIZE = 1
    /\ pc = "limiter"
    /\ abortCause = None
    /\ all_subscriptions = <<>> /\ subscription_upserts = <<>>
    /\ subscriptions_batches = <<>>
    /\ subscriptions = <<>>
    /\ service = None
    /\ skip_token = None /\ query = 0
    /\ request = NoRequest /\ response = NoResponse
    /\ capacity \in 1..MaxCapacity
    /\ refill_rate \in 0..MaxRate
    /\ tokens = capacity
    /\ last_refill_time = 0 /\ now = 0 /\ amount = 0 /\ spent = 0
    /\ backend = <<>> /\ initialized = TRUE
    /\ filters = NoFilters /\ exclude_flag = FALSE /\ fragment = <<>>
    /\ port_state = Absent /\ state = None /\ runs = 1
    /\ consumes = 0 /\ admitted = TRUE /\ sleeps = 0
    /\ items = <<>> /\ idx = 0 /\ wave = 0 /\ tasks = <<>>
    /\ permits = SemaphoreSize
    /\ calls = <<>> /\ returned = <<>> /\ nYields = 0 /\ deliveries = <<>>

\* time passes
Tick ==
    /\ pc = "limiter"
    /\ now < MaxTime
    /\ now' = now + 1
    /\ UNCHANGED <<azureVars, filterVars, settingsVars, portVars, pc, abortCause, batchVars, service, queryVars,
                   limiterVars, pageVars, tasks, permits, historyVars,
                   capacity, refill_rate, last_refill_time, amount, spent>>

\* consume(n): refill for the time since the last refill, which becomes now,
\* then admit or reject
Consume(n) ==
    /\ pc = "limiter"
    /\ consumes < MaxConsumes
    /\ LET c == consume_tokens(tokens, now - last_refill_time, n, capacity, refill_rate)
       IN  /\ tokens' = c.tokens
           /\ admitted' = c.admitted
    /\ last_refill_time' = now
    /\ amount' = n
    /\ spent' = spent + (IF admitted' THEN n ELSE 0)
    /\ consumes' = consumes + 1
    /\ UNCHANGED <<azureVars, filterVars, settingsVars, portVars, pc, abortCause, batchVars, service, queryVars,
                   sleeps, pageVars, tasks, permits, historyVars,
                   capacity, refill_rate, now>>

NextLimiter ==
    \/ Tick
    \/ \E n \in Amounts : Consume(n)

SpecLimiter == InitLimiter /\ [][NextLimiter]_vars

\* what both orchestrators share: discovery (of no subscription, or of
\* MaxSubs of them), the loop over the chunks, run_query and send_webhook_data
Common ==
    \/ \E n \in {0, MaxSubs} : Discover(n)
    \/ DiscoverRaises
    \/ NextBatch
    \/ Complete
    \/ \E dt \in {0, 1} : QueryConsume(dt)
    \/ QuerySleep
    \/ \E data \in Pages, token \in Tokens \cup {None} : QueryCall(data, token)
    \/ QueryRaises
    \/ GenResume
    \/ ProcessPage
    \/ \E k \in 1..MaxTasks : TaskAcquire(k)
    \/ \E k \in 1..MaxTasks, outcome \in ResponseOutcomes : TaskPostReturns(k, outcome)
    \/ \E k \in 1..MaxTasks, outcome \in RaiseOutcomes : TaskPostRaises(k, outcome)
    \/ CancelAll

\* integrations/azure_incremental with SYNC_MODE at its default
Init == InitOf("integration", "incremental")

Next ==
    \/ Common
    \/ BuildWave
    \/ GatherDone

Spec == Init /\ [][Next]_vars

\* pages of created resources only: which pages the backend answers with
\* does not matter for the progress of a run beyond their length
CreatedPages == {p \in Pages : \A k \in DOMAIN p : p[k].changeType = "Create"}

\* The same run under the scheduling of the asyncio event loop: as long as a
\* callback is ready or a response is outstanding, a step is taken.
NextLive ==
    \/ \E n \in {0, MaxSubs} : Discover(n)
    \/ DiscoverRaises
    \/ NextBatch
    \/ Complete
    \/ \E dt \in {0, 1} : QueryConsume(dt)
    \/ QuerySleep
    \/ \E data \in CreatedPages, token \in Tokens \cup {None} : QueryCall(data, token)
    \/ QueryRaises
    \/ GenResume
    \/ ProcessPage
    \/ BuildWave
    \/ GatherDone
    \/ \E k \in 1..MaxTasks : TaskAcquire(k)
    \/ \E k \in 1..MaxTasks, outcome \in ResponseOutcomes : TaskPostReturns(k, outcome)
    \/ \E k \in 1..MaxTasks, outcome \in RaiseOutcomes : TaskPostRaises(k, outcome)
    \/ CancelAll

SpecLive == Init /\ [][NextLive]_vars /\ WF_vars(NextLive)

\* integrations/azure_incremental with SYNC_MODE=full
InitFull == InitOf("integration", "full")

SpecFull == InitFull /\ [][Next]_vars

\* integrations/azure_incremental with SYNC_MODE set either way, the backend
\* answering with pages of any length, of created resources
InitModes == \E mode \in Modes : InitOf("integration", mode)

SpecModes == InitModes /\ [][NextLive]_vars

\* azure-incremental
InitWebhook == InitOf("webhook", "incremental")

NextWebhook ==
    \/ Common
    \/ GatherSubsDone
    \/ GatherUpsertsDone
    \/ GatherDeletesDone

SpecWebhook == InitWebhook /\ [][NextWebhook]_vars

(***************************************************************************)
(* turn_sequence_to_chunks taken on its own, and the loop of main over its  *)
(* chunks when there is none                                               *)
(***************************************************************************)
Sequences == SeqsUpTo(1..MaxElement, MaxSeqLen)

ChunkSizes == (0 - MaxChunkSize)..MaxChunkSize

InitChunks ==
    /\ variant = "chunks"
    /\ SYNC_MODE = "incremental"
    /\ RESOURCE_GROUP_TAG_FILTERS = Unset
    /\ SUBSCRIPTION_BATCH_SIZE \in ChunkSizes
    /\ pc = "chunking"
    /\ abortCause = None
    /\ all_subscriptions \in Sequences /\ subscription_upserts = <<>>
    /\ subscriptions_batches = <<>>
    /\ subscriptions = <<>>
    /\ service = None
    /\ skip_token = None /\ query = 0
    /\ request = NoRequest /\ response = NoResponse
    /\ tokens = LimiterCapacity
    /\ consumes = 0 /\ admitted = TRUE /\ sleeps = 0
    /\ items = <<>> /\ idx = 0 /\ wave = 0 /\ tasks = <<>>
    /\ permits = SemaphoreSize
    /\ calls = <<>> /\ returned = <<>> /\ nYields = 0 /\ deliveries = <<>>
    /\ capacity = LimiterCapacity /\ refill_rate = LimiterRefillRate
    /\ last_refill_time = 0 /\ now = 0 /\ amount = 0 /\ spent = 0
    /\ backend = <<>> /\ initialized = TRUE
    /\ filters = NoFilters /\ exclude_flag = FALSE /\ fragment = <<>>
    /\ port_state = Absent /\ state = None /\ runs = 1

\* subscriptions_batches = turn_sequence_to_chunks(all_subscriptions,
\* app_settings.SUBSCRIPTION_BATCH_SIZE); the for loop over it comes next
Chunk ==
    /\ pc = "chunking"
    /\ subscriptions_batches' =
           turn_sequence_to_chunks(all_subscriptions, SUBSCRIPTION_BATCH_SIZE)
    /\ pc' = "batches"
    /\ UNCHANGED <<bucketVars, azureVars, filterVars, settingsVars, portVars, abortCause, all_subscriptions, subscription_upserts,
                   subscriptions, service, queryVars, limiterVars, pageVars,
                   tasks, permits, historyVars>>

NextChunks ==
    \/ Chunk
    \/ Complete

SpecChunks == InitChunks /\ [][NextChunks]_vars

(***************************************************************************)
(* The tag filter builders applied to the filter sets of the settings:      *)
(* RESOURCE_GROUP_TAG_FILTERS holds an include and an exclude map from tag  *)
(* key to tag value, each kept in insertion order.                          *)
(***************************************************************************)
Entries == [key : TagKeys, value : TagValues]

\* a dict: no key twice
TagMaps ==
    {m \in SeqsUpTo(Entries, MaxEntries) :
        \A i, j \in DOMAIN m : m[i].key = m[j].key => i = j}

FilterSets == [include : TagMaps, exclude : TagMaps]

\* what build_rg_tag_filter_clause is handed: a filter set, as its callers
\* and its tests hand it, or a dict, as its signature has it
FilterSetArgument(f) == [kind |-> "ResourceGroupTagFilters", filters |-> f]

DictArgument(m) == [kind |-> "dict", entries |-> m]

\* resources.build_rg_tag_filter_clause: a ResourceGroupTagFilters is truthy
\* and has no items()
build_rg_tag_filter_clause(tag_filters, exclude) ==
    IF tag_filters.kind = "dict" /\ tag_filters.entries = <<>>
    THEN [raised |-> None, text |-> <<>>]
    ELSE IF tag_filters.kind # "dict"
    THEN [raised |-> "AttributeError", text |-> <<>>]
    ELSE LET conditions == conditions_of("rgTags", tag_filters.entries)
             combined_condition == join(" and ", conditions)
         IN  IF conditions = <<>> THEN [raised |-> None, text |-> <<>>]
             ELSE IF exclude
             THEN [raised |-> None,
                   text |-> <<"| where ", "not (">> \o combined_condition \o <<")">>]
             ELSE [raised |-> None, text |-> <<"| where ">> \o combined_condition]

InitFilters ==
    /\ variant = "filters"
    /\ SYNC_MODE = "incremental"
    /\ RESOURCE_GROUP_TAG_FILTERS = Unset
    /\ SUBSCRIPTION_BATCH_SIZE = MaxSubs
    /\ pc = "filtering"
    /\ abortCause = None
    /\ all_subscriptions = <<>> /\ subscription_upserts = <<>>
    /\ subscriptions_batches = <<>>
    /\ subscriptions = <<>>
    /\ service = None
    /\ skip_token = None /\ query = 0
    /\ request = NoRequest /\ response = NoResponse
    /\ tokens = LimiterCapacity
    /\ consumes = 0 /\ admitted = TRUE /\ sleeps = 0
    /\ items = <<>> /\ idx = 0 /\ wave = 0 /\ tasks = <<>>
    /\ permits = SemaphoreSize
    /\ calls = <<>> /\ returned = <<>> /\ nYields = 0 /\ deliveries = <<>>
    /\ capacity = LimiterCapacity /\ refill_rate = LimiterRefillRate
    /\ last_refill_time = 0 /\ now = 0 /\ amount = 0 /\ spent = 0
    /\ backend = <<>> /\ initialized = TRUE
    /\ filters \in FilterSets /\ exclude_flag = FALSE /\ fragment = <<>>
    /\ port_state = Absent /\ state = None /\ runs = 1

\* the orders n entries can be inserted in
Orders(n) == {p \in [1..n -> 1..n] : \A i, j \in 1..n : p[i] = p[j] => i = j}

Reordered(m, p) == [i \in DOMAIN m |-> m[p[i]]]

unchangedByFilters ==
    <<bucketVars, azureVars, settingsVars, portVars, batchVars, service, queryVars,
      limiterVars, pageVars, tasks, permits, historyVars>>

\* rg_tag_filter_clause = build_rg_tag_filter_clause_for_containers(rg_tag_filters)
ContainersClause ==
    /\ pc = "filtering"
    /\ fragment' = build_rg_tag_filter_clause_for_containers(filters)
    /\ pc' = "containers"
    /\ UNCHANGED <<filters, exclude_flag, abortCause, unchangedByFilters>>

\* the same filter set compiled once more, its entries in another order
ContainersClauseAgain ==
    /\ pc = "containers"
    /\ \E p \in Orders(Len(filters.include)), q \in Orders(Len(filters.exclude)) :
          filters' = [include |-> Reordered(filters.include, p),
                      exclude |-> Reordered(filters.exclude, q)]
    /\ fragment' = build_rg_tag_filter_clause_for_containers(filters')
    /\ pc' = "containers_again"
    /\ UNCHANGED <<exclude_flag, abortCause, unchangedByFilters>>

\* rg_tag_filter_clause = build_rg_tag_filter_clause(rg_tag_filters, ...),
\* rg_tag_filters being the filter set of the settings
ResourcesClause ==
    /\ pc = "filtering"
    /\ LET result == build_rg_tag_filter_clause(FilterSetArgument(filters), FALSE)
       IN  /\ fragment' = result.text
           /\ abortCause' = result.raised
           /\ pc' = IF result.raised = None THEN "resources" ELSE "aborted"
    /\ UNCHANGED <<filters, exclude_flag, unchangedByFilters>>

\* build_rg_tag_filter_clause(tag_filters, exclude) on one map of the set
ResourcesClauseOfDict(side, exclude) ==
    /\ pc = "filtering"
    /\ LET result == build_rg_tag_filter_clause(DictArgument(filters[side]), exclude)
       IN  /\ fragment' = result.text
           /\ abortCause' = result.raised
    /\ exclude_flag' = exclude
    /\ pc' = "resources_" \o side
    /\ UNCHANGED <<filters, unchangedByFilters>>

NextFilters ==
    \/ ContainersClause
    \/ ContainersClauseAgain
    \/ ResourcesClause
    \/ \E exclude \in BOOLEAN : ResourcesClauseOfDict("include", exclude)
    \/ \E exclude \in BOOLEAN : ResourcesClauseOfDict("exclude", exclude)

SpecFilters == InitFilters /\ [][NextFilters]_vars

(***************************************************************************)
(* run_query against a backend that is fixed for the run                   *)
(***************************************************************************)
\* what a backend may hold for a query: one to MaxPages pages
Backends == {b \in SeqsUpTo(CreatedPages, MaxPages) : b # <<>>}

\* the position of the page a request asks for: the first page without a
\* token, the page after the i-th one with the token handed out with it
BackendIndex(token) ==
    IF token = None THEN 1
    ELSE 1 + CHOOSE i \in 1..MaxPages : TokenOf(i) = token

\* the answer of the backend b to a request: a function of the request alone
BackendResponse(b, req) ==
    LET i == BackendIndex(req.skip_token)
    IN  [data |-> b[i],
         skip_token |-> IF i < Len(b) THEN TokenOf(i) ELSE None]

InitBackend ==
    \E b \in Backends : InitWith("integration", "incremental", b, TRUE)

\* response = await self.resource_g_client.resources(query), answered by the
\* fixed backend
BackendCall ==
    LET r == BackendResponse(backend, request)
    IN  QueryCall(r.data, r.skip_token)

\* the caller of run_query is done with the page it was handed, whatever it
\* did with it, and asks the generator for the next one
PageConsumed ==
    /\ pc = "page"
    /\ pc' = "resume"
    /\ consumes' = 0 /\ admitted' = TRUE /\ sleeps' = 0
    /\ UNCHANGED <<bucketVars, azureVars, filterVars, settingsVars, portVars, abortCause, batchVars,
                   service, queryVars, tokens, pageVars, tasks, permits,
                   historyVars>>

NextBackend ==
    \/ Discover(MaxSubs)
    \/ NextBatch
    \/ Complete
    \/ \E dt \in {0, 1} : QueryConsume(dt)
    \/ QuerySleep
    \/ BackendCall
    \/ PageConsumed
    \/ GenResume

SpecBackend == InitBackend /\ [][NextBackend]_vars

\* the same client used as entered by "async with" or as constructed only
InitClient ==
    \E b \in Backends, entered \in BOOLEAN :
        InitWith("integration", "incremental", b, entered)

NextClient ==
    \/ NextBackend
    \/ DiscoverNotInitialized
    \/ DirectQuery
    \/ QueryNotInitialized

SpecClient == InitClient /\ [][NextClient]_vars

(***************************************************************************)
(* run_query invoked again on the same client                              *)
(***************************************************************************)
\* a caller that leaves the generator it was iterating, after a page or
\* after the error the generator raised, and calls run_query once more;
\* abortCause keeps what the generator before raised and returned the
\* cursors the backend handed to it
QueryAgain ==
    /\ \/ pc = "page"
       \/ pc = "aborted" /\ abortCause = "query"
    /\ Len(returned) <= MaxPages
    /\ service' = "resources"
    /\ skip_token' = initial_skip_token(skip_token)
    /\ query' = 0
    /\ request' = NoRequest
    /\ response' = NoResponse
    /\ consumes' = 0 /\ sleeps' = 0 /\ admitted' = TRUE
    /\ calls' = <<>> /\ nYields' = 0 /\ deliveries' = <<>>
    /\ items' = <<>> /\ idx' = 0 /\ wave' = 0
    /\ tasks' = <<>>
    /\ pc' = "consume"
    /\ UNCHANGED <<bucketVars, azureVars, filterVars, settingsVars, portVars, abortCause,
                   batchVars, tokens, permits, returned>>

NextReinvoke ==
    \/ NextBackend
    \/ QueryRaises
    \/ QueryAgain

SpecReinvoke == InitBackend /\ [][NextReinvoke]_vars

(***************************************************************************)
(* azure/src/main.py: the orchestrator that keeps its sync stage in Port.   *)
(* Its PortClient has no semaphore and raises on every response that is not *)
(* a success; the pages of run_query are taken as they come.                *)
(***************************************************************************)
MaxRuns == 2

MaxRecords == 2

\* STATE_DATA["properties"]["value"]
STATE_DATA == "INITIAL"

\* the elements of a sequence
Range(s) == {s[k] : k \in DOMAIN s}

\* the resource groups the subscriptions subs hold: two in the first one, of
\* which one has a namesake in the last one
ResourceGroupsOf(subs) ==
    IF subs = <<>> THEN {}
    ELSE {<<"rg-a", subs[1]>>, <<"rg-b", subs[1]>>, <<"rg-a", subs[Len(subs)]>>}

\* the change records a query over the subscriptions subs may return
StatefulRecords(subs) ==
    {[changeType |-> ct, resourceGroup |-> g[1], subscriptionId |-> g[2]] :
        ct \in {"Create", "Delete"}, g \in ResourceGroupsOf(subs)}

StatefulPages(subs) ==
    {[k \in DOMAIN p |-> [resourceId |-> k, changeType |-> p[k].changeType,
                          resourceGroup |-> p[k].resourceGroup,
                          subscriptionId |-> p[k].subscriptionId]] :
        p \in SeqsUpTo(StatefulRecords(subs), MaxRecords)}

\* PortClient.upsert_data(blueprint, entity), a coroutine not yet awaited
upsert_data(blueprint, id, w) ==
    [id |-> id, operation |-> "upsert", type |-> blueprint, wave |-> w,
     st |-> "created", attempts |-> 0, outcome |-> None]

\* PortClient.delete_data(blueprint, entity), a coroutine not yet awaited
delete_data(blueprint, id, w) ==
    [id |-> id, operation |-> "delete", type |-> blueprint, wave |-> w,
     st |-> "created", attempts |-> 0, outcome |-> None]

\* asyncio.gather(*tasks) is awaited: every coroutine of it runs up to its
\* POST, there is no semaphore to wait for
gather(ts, w) ==
    [k \in DOMAIN ts |-> IF ts[k].wave = w
                         THEN [ts[k] EXCEPT !.st = "inflight", !.attempts = 1]
                         ELSE ts[k]]

\* a state that is looked for at every start but never found
state_never_found(state_response) == FALSE

\* initialize_state: "if not state_response" is not taken
state_found(state_response) == state_response # Absent

\* the pairs of a page with every pair kept once, in the order of their
\* first occurrence
RECURSIVE distinct_resource_groups(_)
distinct_resource_groups(its) ==
    IF its = <<>> THEN <<>>
    ELSE LET before == distinct_resource_groups(SubSeq(its, 1, Len(its) - 1))
             pair == <<its[Len(its)].resourceGroup, its[Len(its)].subscriptionId>>
         IN  IF pair \in Range(before) THEN before ELSE Append(before, pair)

\* process_change_items: resource_groups.append((item["resourceGroup"],
\* item["subscriptionId"])) for every item of the page
resource_groups(its) ==
    [k \in DOMAIN its |-> <<its[k].resourceGroup, its[k].subscriptionId>>]

\* upsert_resources_groups: one upsert_data per element of r_groups
upsert_resources_groups(r_groups) ==
    [k \in DOMAIN r_groups |-> upsert_data("resourceGroup", r_groups[k], 1)]

\* process_change_items of azure/src/main.py: the resource groups are
\* upserted at once; the delete tasks are gathered next, the upsert tasks last
stateful_change_items(its) ==
    [k \in DOMAIN its |->
        IF its[k].changeType = "Delete"
        THEN delete_data("resource", its[k].resourceId, 2)
        ELSE upsert_data("resource", its[k].resourceId, 3)]

InitStateful ==
    /\ InitOf("stateful", "incremental")
    /\ port_state \in {Absent, "INITIAL", "SUBSEQUENT"}

unchangedByState ==
    <<bucketVars, azureVars, filterVars, settingsVars, service, queryVars,
      limiterVars, permits, calls, returned, deliveries>>

\* state = await initialize_state(port_client): the state entity is
\* retrieved, and created from STATE_DATA when there is none
InitializeState ==
    /\ pc = "start"
    /\ port_state' = IF state_found(port_state) THEN port_state ELSE STATE_DATA
    /\ state' = port_state'
    /\ pc' = "discover"
    /\ UNCHANGED <<unchangedByState, abortCause, batchVars, pageVars, tasks,
                   nYields, runs>>

\* retrieve_data or upsert_data raises in initialize_state; a POST that
\* raised may or may not have created the entity
InitializeStateRaises(applied) ==
    /\ pc = "start"
    /\ applied => ~state_found(port_state)
    /\ port_state' = IF applied THEN STATE_DATA ELSE port_state
    /\ pc' = "aborted"
    /\ abortCause' = "state"
    /\ UNCHANGED <<unchangedByState, state, batchVars, pageVars, tasks,
                   nYields, runs>>

\* subs = await azure_client.get_all_subscriptions(), chunked at once; there
\* is no test for an empty list
StatefulDiscover(n) ==
    /\ pc = "discover"
    /\ all_subscriptions' = [k \in 1..n |-> k]
    /\ subscriptions_batches' =
           turn_sequence_to_chunks(all_subscriptions', SUBSCRIPTION_BATCH_SIZE)
    /\ pc' = "batches"
    /\ UNCHANGED <<unchangedByState, portVars, abortCause, subscription_upserts,
                   subscriptions, pageVars, tasks, nYields>>

\* the for loop takes a batch: await upsert_subscriptions(subscriptions, ...)
StatefulNextBatch ==
    /\ pc = "batches"
    /\ subscriptions_batches # <<>>
    /\ subscriptions' = Head(subscriptions_batches)
    /\ subscriptions_batches' = Tail(subscriptions_batches)
    /\ subscription_upserts' = subscription_upserts \o subscriptions'
    /\ wave' = 1
    /\ tasks' = gather([k \in DOMAIN subscriptions' |->
                           upsert_data("subscription", subscriptions'[k], 1)], 1)
    /\ pc' = "gather_subs"
    /\ UNCHANGED <<unchangedByState, portVars, abortCause, all_subscriptions,
                   items, idx, nYields>>

\* the gather of upsert_subscriptions returns: run_query is opened
StatefulSubsDone ==
    /\ pc = "gather_subs"
    /\ gather_complete(tasks)
    /\ tasks' = <<>> /\ items' = <<>> /\ nYields' = 0
    /\ pc' = "query"
    /\ UNCHANGED <<unchangedByState, portVars, abortCause, batchVars, idx, wave>>

\* run_query yields a page: process_change_items builds the tasks of the
\* page and awaits upsert_resources_groups
StatefulPage ==
    /\ pc = "query"
    /\ nYields < MaxPages
    /\ nYields' = nYields + 1
    /\ items' \in StatefulPages(subscriptions)
    /\ wave' = 1
    /\ tasks' = gather(upsert_resources_groups(resource_groups(items'))
                           \o stateful_change_items(items'), 1)
    /\ pc' = "gather_groups"
    /\ UNCHANGED <<unchangedByState, portVars, abortCause, batchVars, idx>>

\* the gather of upsert_resources_groups returns and its tasks are dropped:
\* process_change_items returns delete_tasks and upsert_tasks, and "await
\* asyncio.gather(*delete_tasks)" is reached; the page itself is not used again
StatefulGroupsDone ==
    /\ pc = "gather_groups"
    /\ gather_complete(SelectSeq(tasks, LAMBDA t : t.wave = 1))
    /\ wave' = 2
    /\ tasks' = gather(SelectSeq(tasks, LAMBDA t : t.wave # 1), 2)
    /\ items' = <<>>
    /\ pc' = "gather_deletes"
    /\ UNCHANGED <<unchangedByState, portVars, abortCause, batchVars, idx,
                   nYields>>

\* "await asyncio.gather(*upsert_tasks)" is reached
StatefulDeletesDone ==
    /\ pc = "gather_deletes"
    /\ gather_complete(SelectSeq(tasks, LAMBDA t : t.wave = 2))
    /\ wave' = 3
    /\ tasks' = gather(tasks, 3)
    /\ pc' = "gather_upserts"
    /\ UNCHANGED <<unchangedByState, portVars, abortCause, batchVars, items,
                   idx, nYields>>

\* the page is done: the next one is asked for
StatefulUpsertsDone ==
    /\ pc = "gather_upserts"
    /\ gather_complete(tasks)
    /\ pc' = "query"
    /\ UNCHANGED <<unchangedByState, portVars, abortCause, batchVars, pageVars,
                   tasks, nYields>>

\* run_query has no further page: the for loop goes on
StatefulQueryEnds ==
    /\ pc = "query"
    /\ pc' = "batches"
    /\ UNCHANGED <<unchangedByState, portVars, abortCause, batchVars, pageVars,
                   tasks, nYields>>

\* run_query raises
StatefulQueryRaises ==
    /\ pc = "query"
    /\ pc' = "aborted"
    /\ abortCause' = "query"
    /\ UNCHANGED <<unchangedByState, portVars, batchVars, pageVars, tasks,
                   nYields>>

\* a POST is answered with a success
PortCallReturns(k) ==
    /\ k \in DOMAIN tasks
    /\ tasks[k].st = "inflight"
    /\ pc \in GatherPcs \cup {"gather_groups"}
    /\ tasks' = [tasks EXCEPT ![k].st = "returned", ![k].outcome = "ok"]
    /\ UNCHANGED <<unchangedByState, portVars, pc, abortCause, batchVars,
                   pageVars, nYields>>

\* a POST raises, or _handle_error raises for its response: the gather that
\* is awaited re-raises and nothing catches it up to asyncio.run
PortCallRaises(k) ==
    /\ k \in DOMAIN tasks
    /\ tasks[k].st = "inflight"
    /\ pc \in GatherPcs \cup {"gather_groups"}
    /\ tasks' = [tasks EXCEPT ![k].st = "raised", ![k].outcome = "error"]
    /\ pc' = "aborted"
    /\ abortCause' = "delivery"
    /\ UNCHANGED <<unchangedByState, portVars, batchVars, pageVars, nYields>>

\* the for loop is exhausted: the state is written
WriteState ==
    /\ pc = "batches"
    /\ subscriptions_batches = <<>>
    /\ port_state' = "SUBSEQUENT"
    /\ pc' = "completed"
    /\ UNCHANGED <<unchangedByState, state, runs, abortCause, batchVars,
                   pageVars, tasks, nYields>>

\* the upsert_data of the state raises; its POST may or may not have been
\* applied
WriteStateRaises(applied) ==
    /\ pc = "batches"
    /\ subscriptions_batches = <<>>
    /\ port_state' = IF applied THEN "SUBSEQUENT" ELSE port_state
    /\ pc' = "aborted"
    /\ abortCause' = "state"
    /\ UNCHANGED <<unchangedByState, state, runs, batchVars, pageVars, tasks,
                   nYields>>

\* the workflow is run again
RunAgain ==
    /\ pc \in {"completed", "aborted"}
    /\ runs < MaxRuns
    /\ runs' = runs + 1
    /\ pc' = "start"
    /\ abortCause' = None
    /\ state' = None
    /\ all_subscriptions' = <<>> /\ subscription_upserts' = <<>>
    /\ subscriptions_batches' = <<>> /\ subscriptions' = <<>>
    /\ items' = <<>> /\ wave' = 0 /\ tasks' = <<>> /\ nYields' = 0
    /\ UNCHANGED <<unchangedByState, port_state, idx>>

NextStateful ==
    \/ InitializeState
    \/ \E applied \in BOOLEAN : InitializeStateRaises(applied)
    \/ \E n \in {0, MaxSubs} : StatefulDiscover(n)
    \/ StatefulNextBatch
    \/ StatefulSubsDone
    \/ StatefulPage
    \/ StatefulGroupsDone
    \/ StatefulDeletesDone
    \/ StatefulUpsertsDone
    \/ StatefulQueryEnds
    \/ StatefulQueryRaises
    \/ \E k \in 1..(2 * MaxTasks) : PortCallReturns(k)
    \/ \E k \in 1..(2 * MaxTasks) : PortCallRaises(k)
    \/ WriteState
    \/ \E applied \in BOOLEAN : WriteStateRaises(applied)
    \/ RunAgain

SpecStateful == InitStateful /\ [][NextStateful]_vars

(***************************************************************************)
(* settings.get_resource_group_tag_filters.  The setting is a text, kept as *)
(* the sequence of its JSON tokens; json.loads reads it token by token.     *)
(***************************************************************************)
MaxMembers == 2

\* the longest integer literal int() converts (sys.int_info of CPython 3.11,
\* the version StrEnum asks for)
Int_max_str_digits == 4300

\* JSON values: None, a str, an int of so many digits, a list, a dict (its
\* items in insertion order)
JNull == [kind |-> "null", s |-> <<>>, digits |-> 0, members |-> <<>>]

JString(s) == [kind |-> "string", s |-> s, digits |-> 0, members |-> <<>>]

JNumber(d) == [kind |-> "number", s |-> <<>>, digits |-> d, members |-> <<>>]

JArray(ms) == [kind |-> "array", s |-> <<>>, digits |-> 0, members |-> ms]

JObject(ms) == [kind |-> "object", s |-> <<>>, digits |-> 0, members |-> ms]

Member(k, v) == [key |-> k, val |-> v]

\* the tokens of a text
Tok(t) == [t |-> t, s |-> <<>>, digits |-> 0]

StrTok(s) == [t |-> "str", s |-> s, digits |-> 0]

NumTok(d) == [t |-> "num", s |-> <<>>, digits |-> d]

\* the text of a value
RECURSIVE dumps(_), dump_members(_, _)
dumps(v) ==
    CASE v.kind = "null" -> <<Tok("null")>>
      [] v.kind = "string" -> <<StrTok(v.s)>>
      [] v.kind = "number" -> <<NumTok(v.digits)>>
      [] v.kind = "array" -> <<Tok("[")>> \o dump_members(v.members, FALSE) \o <<Tok("]")>>
      [] OTHER -> <<Tok("{")>> \o dump_members(v.members, TRUE) \o <<Tok("}")>>

dump_members(ms, keyed) ==
    IF ms = <<>> THEN <<>>
    ELSE (IF keyed THEN <<StrTok(ms[1].key), Tok(":")>> ELSE <<>>)
         \o dumps(ms[1].val)
         \o (IF Len(ms) > 1 THEN <<Tok(",")>> \o dump_members(Tail(ms), keyed)
             ELSE <<>>)

\* d[k] = v: a key that is there keeps its place and takes the new value
dict_set(ms, k, v) ==
    IF \E j \in DOMAIN ms : ms[j].key = k
    THEN [j \in DOMAIN ms |-> IF ms[j].key = k THEN Member(k, v) ELSE ms[j]]
    ELSE Append(ms, Member(k, v))

\* d.get(k, default)
dict_get(d, k, default) ==
    IF \E j \in DOMAIN d.members : d.members[j].key = k
    THEN d.members[CHOOSE j \in DOMAIN d.members : d.members[j].key = k].val
    ELSE default

Failure(e) == [err |-> e, val |-> JNull, next |-> 0]

Parsed(v, n) == [err |-> None, val |-> v, next |-> n]

\* the scanner of json.loads: a value starting at token i; an integer literal
\* is converted with int() as soon as it is read
RECURSIVE parse_value(_, _), parse_members(_, _, _, _)
parse_value(text, i) ==
    IF i > Len(text) THEN Failure("JSONDecodeError")
    ELSE CASE text[i].t = "null" -> Parsed(JNull, i + 1)
           [] text[i].t = "str" -> Parsed(JString(text[i].s), i + 1)
           [] text[i].t = "num" ->
                  IF text[i].digits > Int_max_str_digits THEN Failure("ValueError")
                  ELSE Parsed(JNumber(text[i].digits), i + 1)
           [] text[i].t = "{" ->
                  IF i + 1 <= Len(text) /\ text[i + 1].t = "}"
                  THEN Parsed(JObject(<<>>), i + 2)
                  ELSE parse_members(text, i + 1, <<>>, TRUE)
           [] text[i].t = "[" ->
                  IF i + 1 <= Len(text) /\ text[i + 1].t = "]"
                  THEN Parsed(JArray(<<>>), i + 2)
                  ELSE parse_members(text, i + 1, <<>>, FALSE)
           [] OTHER -> Failure("JSONDecodeError")

\* the members of a dict (keyed) or the elements of a list, the first of them
\* starting at token i, up to the closing bracket
parse_members(text, i, ms, keyed) ==
    IF keyed /\ ~(i + 1 <= Len(text) /\ text[i].t = "str" /\ text[i + 1].t = ":")
    THEN Failure("JSONDecodeError")
    ELSE LET r == parse_value(text, IF keyed THEN i + 2 ELSE i)
             seen == IF keyed THEN dict_set(ms, text[i].s, r.val)
                     ELSE Append(ms, Member(<<>>, r.val))
         IN  IF r.err # None THEN r
             ELSE IF r.next > Len(text) THEN Failure("JSONDecodeError")
             ELSE IF text[r.next].t = "," THEN parse_members(text, r.next + 1, seen, keyed)
             ELSE IF text[r.next].t = (IF keyed THEN "}" ELSE "]")
             THEN Parsed(IF keyed THEN JObject(seen) ELSE JArray(seen), r.next + 1)
             ELSE Failure("JSONDecodeError")

\* json.loads: one value and nothing after it
json_loads(text) ==
    LET r == parse_value(text, 1)
    IN  IF r.err # None THEN r
        ELSE IF r.next <= Len(text) THEN Failure("JSONDecodeError")
        ELSE r

\* _parse_json: the dict, or None for a text that is no JSON or no object;
\* only json.JSONDecodeError is caught
parse_json(raw_json) ==
    LET r == json_loads(raw_json)
    IN  IF r.err = "JSONDecodeError" THEN [raised |-> None, data |-> JNull]
        ELSE IF r.err # None THEN [raised |-> r.err, data |-> JNull]
        ELSE IF r.val.kind = "object" THEN [raised |-> None, data |-> r.val]
        ELSE [raised |-> None, data |-> JNull]

FilterKeys == {<<"include">>, <<"exclude">>}

\* _is_valid_filter_structure: data.get(key) is None, or a dict of str to str
is_valid_filter_structure(data) ==
    \A key \in FilterKeys :
        LET f == dict_get(data, key, JNull)
        IN  f.kind # "null" =>
                /\ f.kind = "object"
                /\ \A j \in DOMAIN f.members : f.members[j].val.kind = "string"

\* the items of a dict of str to str
items_of(d) ==
    [j \in DOMAIN d.members |-> [key |-> d.members[j].key, value |-> d.members[j].val.s]]

\* ResourceGroupTagFilters.__init__: include or {}, exclude or {}
ResourceGroupTagFilters(include, exclude) ==
    [include |-> IF include.kind = "null" THEN <<>> ELSE items_of(include),
     exclude |-> IF exclude.kind = "null" THEN <<>> ELSE items_of(exclude)]

\* _AppSettings.get_resource_group_tag_filters
get_resource_group_tag_filters(setting) ==
    IF ~setting.set \/ setting.text = <<>>
    THEN [raised |-> None, filters |-> NoFilters]
    ELSE LET parsed == parse_json(setting.text)
         IN  IF parsed.raised # None
             THEN [raised |-> parsed.raised, filters |-> NoFilters]
             ELSE IF parsed.data.kind = "null"
             THEN [raised |-> None, filters |-> NoFilters]
             ELSE IF ~is_valid_filter_structure(parsed.data)
             THEN [raised |-> None, filters |-> NoFilters]
             ELSE [raised |-> None,
                   filters |-> ResourceGroupTagFilters(
                                   dict_get(parsed.data, <<"include">>, JObject(<<>>)),
                                   dict_get(parsed.data, <<"exclude">>, JObject(<<>>)))]

\* what "include" and "exclude" are set to in the documents tried: maps of
\* strings, a map with a number in it, and values that are no map
StringMaps ==
    {JObject(<<>>),
     JObject(<<Member(<<"k">>, JString(<<"V">>))>>),
     JObject(<<Member(<<"k">>, JString(<<"V">>)),
               Member(<<"K">>, JString(<<Quote, "w">>))>>)}

FieldValues ==
    StringMaps \cup {JObject(<<Member(<<"k">>, JNumber(1))>>), JNull,
                     JString(<<"V">>), JNumber(1), JArray(<<>>)}

Members ==
    {Member(k, v) : k \in FilterKeys, v \in FieldValues}
        \cup {Member(<<"n">>, JNumber(d)) : d \in {1, Int_max_str_digits + 1}}

Documents ==
    {JObject(ms) : ms \in SeqsUpTo(Members, MaxMembers)}
        \cup {JNull, JString(<<"V">>), JNumber(1), JNumber(Int_max_str_digits + 1),
              JArray(<<>>), JArray(<<Member(<<>>, JNumber(1))>>)}

\* the texts of the documents, whole or cut short, and a text of plain words
SettingTexts ==
    {dumps(d) : d \in Documents}
        \cup {SubSeq(dumps(d), 1, Len(dumps(d)) - 1) : d \in Documents}
        \cup {<<Tok("word"), Tok("word")>>}

InitSettings ==
    /\ variant = "settings"
    /\ SYNC_MODE = "incremental"
    /\ RESOURCE_GROUP_TAG_FILTERS \in
           {Unset} \cup {[set |-> TRUE, text |-> t] : t \in SettingTexts}
    /\ SUBSCRIPTION_BATCH_SIZE = MaxSubs
    /\ pc = "settings"
    /\ abortCause = None
    /\ all_subscriptions = <<>> /\ subscription_upserts = <<>>
    /\ subscriptions_batches = <<>>
    /\ subscriptions = <<>>
    /\ service = None
    /\ skip_token = None /\ query = 0
    /\ request = NoRequest /\ response = NoResponse
    /\ tokens = LimiterCapacity
    /\ consumes = 0 /\ admitted = TRUE /\ sleeps = 0
    /\ items = <<>> /\ idx = 0 /\ wave = 0 /\ tasks = <<>>
    /\ permits = SemaphoreSize
    /\ calls = <<>> /\ returned = <<>> /\ nYields = 0 /\ deliveries = <<>>
    /\ capacity = LimiterCapacity /\ refill_rate = LimiterRefillRate
    /\ last_refill_time = 0 /\ now = 0 /\ amount = 0 /\ spent = 0
    /\ backend = <<>> /\ initialized = TRUE
    /\ filters = NoFilters /\ exclude_flag = FALSE /\ fragment = <<>>
    /\ port_state = Absent /\ state = None /\ runs = 1

\* rg_tag_filters = app_settings.get_resource_group_tag_filters(); what it
\* raises is caught nowhere
GetFilters ==
    /\ pc = "settings"
    /\ LET r == get_resource_group_tag_filters(RESOURCE_GROUP_TAG_FILTERS)
       IN  IF r.raised = None
           THEN /\ filters' = r.filters
                /\ pc' = "filtering"
                /\ UNCHANGED abortCause
           ELSE /\ pc' = "aborted"
                /\ abortCause' = r.raised
                /\ UNCHANGED filters
    /\ UNCHANGED <<exclude_flag, fragment, unchangedByFilters>>

\* the filters of the settings, and the clause the containers service makes
\* of them
NextSettings ==
    \/ GetFilters
    \/ ContainersClause

SpecSettings == InitSettings /\ [][NextSettings]_vars

(***************************************************************************)
(* Properties                                                              *)
(***************************************************************************)
\* POSTs holding the semaphore
InFlight == Cardinality({k \in DOMAIN tasks : tasks[k].st = "inflight"})

\* the consumer is done with the page in items: it asks for the next page, or
\* a delivery of the page has raised out of main
PageLeft == pc = "resume" \/ (pc = "aborted" /\ abortCause = "delivery")

\* the remote call has just been issued: the limiter history is the one that
\* preceded it
JustCalled == pc = "page" \/ (pc = "aborted" /\ abortCause = "query")

\* the latest remote call raised instead of answering
CallRaised == Len(calls) > Len(returned)

CeilDiv(a, b) == (a + b - 1) \div b

\* C1: in incremental mode every record of every non-empty page gets exactly
\* one send_webhook_data call, made with id = resourceId and with operation
\* "delete" iff changeType is "Delete", else "upsert".
C1_EveryRecordDelivered ==
    (SYNC_MODE = "incremental" /\ items # <<>> /\ PageLeft) =>
        \A j \in DOMAIN items :
            LET mine == {k \in DOMAIN deliveries : deliveries[k].id = items[j].resourceId}
            IN  /\ Cardinality(mine) = 1
                /\ \A k \in mine :
                       deliveries[k].operation =
                           (IF items[j].changeType = "Delete" THEN "delete" ELSE "upsert")

\* C2: a send_webhook_data call whose POST fails transiently (network error
\* or 5xx) on its first k attempts makes min(k + 1, 3) attempts: a finished
\* call has made one to three attempts, and three when its last attempt still
\* failed transiently.
C2_TransientFailuresRetried ==
    \A k \in DOMAIN tasks :
        tasks[k].st \in {"returned", "raised"} =>
            /\ tasks[k].attempts \in 1..3
            /\ tasks[k].outcome \in {"server_error", "network_error"} =>
                   tasks[k].attempts = 3

\* C3: a failing delivery never aborts the run: send_webhook_data returns
\* normally whatever the POST does, and main does not end on a delivery.
C3_DeliveryFailureContained ==
    /\ \A k \in DOMAIN tasks : tasks[k].st # "raised"
    /\ abortCause # "delivery"

\* C4: the number of POSTs in flight never exceeds the size of the PortClient
\* semaphore, whatever the waves, pages and chunks.
C4_InFlightBounded == InFlight <= SemaphoreSize

\* the semaphore is exhausted while a scheduled delivery still waits for it
C4_Witness ==
    /\ InFlight = SemaphoreSize
    /\ \E k \in DOMAIN tasks : Scheduled(k) /\ tasks[k].st = "created"

\* C5: a page of N records is delivered with exactly N calls in ceil(N / 100)
\* successive waves of at most 100 calls; a wave starts only when the wave
\* before it has completed.
C5_WavesOfPage ==
    /\ (variant = "integration" /\ items # <<>> /\ PageLeft) =>
           /\ Len(deliveries) = Len(items)
           /\ {d.wave : d \in {deliveries[k] : k \in DOMAIN deliveries}}
                  = 1..CeilDiv(Len(items), WaveSize)
    /\ \A w \in 1..MaxTasks :
           Cardinality({k \in DOMAIN deliveries : deliveries[k].wave = w}) <= WaveSize
    /\ \A k \in DOMAIN tasks :
           tasks[k].wave < wave => tasks[k].st = "returned"

\* C6: within one page of sync_incremental, upserts and deletes run as
\* separate waves: no wave holds both, and a delete is never in flight
\* together with an upsert of the same page.
C6_UpsertsAndDeletesApart ==
    \A j, k \in DOMAIN tasks :
        (tasks[j].operation = "upsert" /\ tasks[k].operation = "delete") =>
            /\ tasks[j].wave # tasks[k].wave
            /\ ~(tasks[j].st = "inflight" /\ tasks[k].st = "inflight")

\* C7 as claimed: run_query issues the remote call only after an admitted
\* consume(1) (a rejected consume is followed by a pause and a new consume).
C7_CallOnlyAfterAdmission == JustCalled => admitted

\* C7: run_query calls consume(1) exactly once before each remote call; when
\* the consume is rejected it sleeps one second, once, and then issues the
\* call without consuming again.  The request was built before the consume
\* with the cursor the generator holds, and no remote call is made meanwhile.
C7_OneConsumePerCall ==
    /\ JustCalled =>
           /\ consumes = 1
           /\ sleeps = (IF admitted THEN 0 ELSE 1)
           /\ calls[Len(calls)].skip_token = skip_token
    /\ pc = "sleep" =>
           /\ ~admitted /\ consumes = 1 /\ sleeps = 0
           /\ request.skip_token = skip_token
           /\ Len(calls) = nYields
    /\ pc = "call" => sleeps = (IF admitted THEN 0 ELSE 1)

\* a remote call issued after a rejected consume and its one sleep
C7_Witness == pc = "page" /\ ~admitted /\ consumes = 1 /\ sleeps = 1

\* C8: against a backend that answers calls 1..k-1 with a cursor and call k
\* without one, run_query makes exactly k remote calls, yields every page in
\* the order received (empty ones too) and then ends: every answer is yielded
\* as it arrives, the generator goes on to another call exactly when the
\* latest answer carried a cursor, and it ends exactly when it carried none.
C8_Step ==
    /\ pc' = "page" =>
           /\ Len(calls') = Len(returned')
           /\ nYields' = Len(calls')
           /\ items' = response'.data
    /\ Len(calls') > Len(calls) =>
           /\ nYields = Len(calls)
           /\ Len(calls) > 0 => returned[Len(returned)] # None
    /\ (pc = "resume" /\ (pc' = "batches" \/ calls' = <<>>)) =>
           /\ returned[Len(returned)] = None
           /\ nYields = Len(calls)
    /\ (pc = "resume" /\ pc' = "consume" /\ calls' # <<>>) =>
           /\ returned[Len(returned)] # None
           /\ calls' = calls

C8_PagesUntilNoCursor == [][C8_Step]_vars

\* a query that ended after two or more calls, the last page being empty
C8_Witness ==
    /\ pc = "batches"
    /\ Len(calls) >= 2
    /\ nYields = Len(calls)
    /\ returned[Len(returned)] = None
    /\ items = <<>>

\* C9: the first remote call of a query carries no cursor, and call i + 1
\* carries exactly the cursor returned by the answer to call i.
C9_CursorThreading ==
    /\ Len(calls) >= 1 => calls[1].skip_token = None
    /\ \A i \in 1..(Len(calls) - 1) : calls[i + 1].skip_token = returned[i]

\* a second call made with the cursor of the first answer
C9_Witness ==
    /\ Len(calls) >= 2
    /\ returned[1] # None
    /\ calls[2].skip_token = returned[1]

\* C10: a remote query call that raises ends the run: main is left with the
\* error, and from then on no page is yielded, no remote call is made, no
\* later chunk is taken and no delivery is made.
C10_Step ==
    /\ Len(calls') > Len(returned') =>
           /\ pc' = "aborted" /\ abortCause' = "query"
           /\ \A k \in DOMAIN tasks' : ~Unfinished(tasks'[k])
    /\ CallRaised =>
           UNCHANGED <<pc, calls, returned, nYields, deliveries, tasks,
                       subscriptions, subscriptions_batches>>

C10_QueryErrorAborts == [][C10_Step]_vars

\* the second page of a chunk raised while another chunk was still to come
C10_Witness ==
    /\ CallRaised
    /\ pc = "aborted"
    /\ nYields >= 1
    /\ subscriptions_batches # <<>>

\* the positions of main inside run_query or between two pages of it
QueryPcs == {"consume", "sleep", "call", "page", "resume"}

\* C11: page-level backpressure: the remote call for the next page is not
\* issued before every delivery created for the page before it has completed:
\* whenever main is in run_query or between two pages, no delivery is pending
\* and no POST holds the semaphore.
C11_PageBackpressure ==
    pc \in QueryPcs =>
        /\ \A k \in DOMAIN tasks : ~Unfinished(tasks[k])
        /\ permits = SemaphoreSize

\* the call for a second page is about to be issued after a page whose
\* deliveries were made in two waves
C11_Witness ==
    /\ pc = "call"
    /\ Len(calls) >= 1
    /\ \E k \in DOMAIN deliveries : deliveries[k].wave = 2
    /\ permits = SemaphoreSize

\* main has left its loop with nothing left behind: no chunk is waiting, the
\* last query of the last chunk ended on a response without cursor, every
\* page was yielded, every record of the last page got its delivery and every
\* delivery has returned
Drained ==
    /\ pc = "completed"
    /\ subscriptions_batches = <<>>
    /\ service = "resourceContainers"
    /\ returned # <<>> /\ returned[Len(returned)] = None
    /\ nYields = Len(calls)
    /\ Len(deliveries) = Len(items)
    /\ \A k \in DOMAIN tasks : tasks[k].st = "returned"
    /\ permits = SemaphoreSize

C13_TokensWithinCapacity == tokens <= capacity

\* C13, amended: after consume(n) with n >= 0 tokens is at most capacity,
\* whatever came before; a negative n may leave tokens above capacity, by at
\* most |n|
C13_TokensWithinCapacityUnlessGivenBack ==
    tokens <= capacity + Max(0, 0 - amount)

\* a consume of a non-negative amount, after time has passed with a positive
\* refill rate and after an earlier consume, leaves a full bucket
C13_Witness ==
    /\ pc = "limiter"
    /\ consumes >= 2
    /\ amount >= 0
    /\ refill_rate > 0
    /\ last_refill_time > 0
    /\ tokens = capacity

(***************************************************************************)
(* C14: admission of a non-negative amount with no time elapsed            *)
(***************************************************************************)
\* a step that is a call of consume on the limiter taken on its own
ConsumeStep == pc = "limiter" /\ consumes' = consumes + 1

\* a call of consume(n), n >= 0, with no time elapsed since the last refill
ZeroElapsedConsume == ConsumeStep /\ now = last_refill_time /\ amount' >= 0

\* C14 as stated: in any reachable state with zero elapsed time consume(n),
\* n >= 0, returns true iff tokens >= n, then takes exactly n tokens, and
\* leaves tokens unchanged otherwise
C14_AsStatedStep ==
    ZeroElapsedConsume =>
        /\ admitted' <=> (tokens >= amount')
        /\ tokens' = IF admitted' THEN tokens - amount' ELSE tokens

C14_AdmissionOnTokens == [][C14_AsStatedStep]_vars

\* C14, amended: with zero elapsed time consume(n), n >= 0, is admitted iff
\* min(tokens, capacity) >= n, and leaves min(tokens, capacity) - n tokens
\* when admitted, min(tokens, capacity) when rejected; on a fresh limiter
\* consume(n) with n <= capacity leaves capacity - n; consume(0) is always
\* admitted; from a bucket that held capacity minus the admitted amounts,
\* and no more than capacity, the bucket again holds capacity minus the
\* admitted amounts
C14_Step ==
    ZeroElapsedConsume =>
        LET available == Min(tokens, capacity)
        IN  /\ admitted' <=> (available >= amount')
            /\ tokens' = IF admitted' THEN available - amount' ELSE available
            /\ (consumes = 0 /\ amount' <= capacity) =>
                   admitted' /\ tokens' = capacity - amount'
            /\ amount' = 0 => admitted'
            /\ (tokens <= capacity /\ tokens = capacity - spent) =>
                   tokens' = capacity - spent'

C14_AdmissionOnAvailableTokens == [][C14_Step]_vars

\* two amounts admitted and a third rejected, all before any time elapsed:
\* the bucket holds capacity minus the two
C14_Witness ==
    /\ pc = "limiter"
    /\ now = 0
    /\ consumes = 3
    /\ ~admitted
    /\ amount > 0
    /\ spent >= 2
    /\ tokens = capacity - spent
    /\ tokens > 0

(***************************************************************************)
(* C15: consume of a negative amount                                       *)
(***************************************************************************)
\* the time since the last refill, as the next consume sees it
Elapsed == now - last_refill_time

\* C15: consume(n) with n < 0 is always admitted and adds |n| tokens to the
\* refilled bucket; on a fresh limiter it leaves capacity + |n| tokens
C15_Step ==
    (ConsumeStep /\ amount' < 0) =>
        /\ admitted'
        /\ tokens' = Min(capacity, tokens + Elapsed * refill_rate) + (0 - amount')
        /\ consumes = 0 => tokens' = capacity + (0 - amount')

C15_NegativeAmountAdmitted == [][C15_Step]_vars

\* a fresh limiter after consume(n), n < 0: more tokens than its capacity
C15_Witness ==
    /\ pc = "limiter"
    /\ consumes = 1
    /\ amount < 0
    /\ admitted
    /\ tokens = capacity - amount
    /\ tokens > capacity

(***************************************************************************)
(* C16: every consume refills first                                        *)
(***************************************************************************)
\* C16: every consume(n), admitted or rejected, first sets tokens to
\* min(capacity, tokens + elapsed * refill_rate) and the time of the last
\* refill to now, and checks n against the refilled tokens; with a refill
\* rate of 0 the refill never increases tokens
C16_Step ==
    ConsumeStep =>
        LET refilled == Min(capacity, tokens + Elapsed * refill_rate)
        IN  /\ last_refill_time' = now
            /\ admitted' <=> (refilled >= amount')
            /\ tokens' = IF admitted' THEN refilled - amount' ELSE refilled
            /\ refill_rate = 0 => refilled <= tokens

C16_RefillBeforeAdmission == [][C16_Step]_vars

\* a first consume emptied the bucket; a second one, later, was rejected and
\* still left the tokens refilled meanwhile and the time of the refill
C16_Witness ==
    /\ pc = "limiter"
    /\ consumes = 2
    /\ spent = capacity
    /\ ~admitted
    /\ tokens > 0
    /\ last_refill_time = now
    /\ now > 0

(***************************************************************************)
(* C17: the tokens of a limiter are never negative                         *)
(***************************************************************************)
\* C17: with a clock that never runs backwards, after any sequence of
\* consume calls tokens is never negative
C17_TokensNeverNegative == tokens >= 0

\* an emptied bucket that has just turned an amount down
C17_Witness ==
    /\ pc = "limiter"
    /\ consumes >= 2
    /\ tokens = 0
    /\ ~admitted
    /\ amount > 0

(***************************************************************************)
(* C18: a page without records                                             *)
(***************************************************************************)
\* C18: in sync_full and in sync_incremental, of resources and of resource
\* containers, a page without records makes no send_webhook_data call and
\* does not end the run: the consumer asks for the next page, and when the
\* page came with a continuation token the next request carries that token
C18_Step ==
    /\ (pc = "page" /\ items = <<>>) =>
           /\ pc' = "resume"
           /\ deliveries' = <<>>
           /\ tasks' = <<>>
           /\ permits' = permits
           /\ abortCause' = abortCause
    /\ (pc = "resume" /\ items = <<>> /\ response.skip_token # None) =>
           /\ pc' = "consume"
           /\ skip_token' = response.skip_token
           /\ service' = service
           /\ deliveries' = <<>>
    /\ (pc = "call" /\ Len(calls) >= 1 /\ response.data = <<>> /\ pc' = "page") =>
           /\ request.skip_token = response.skip_token
           /\ deliveries' = <<>>

C18_EmptyPageSkipped == [][C18_Step]_vars

\* in full mode the first page of the resource containers came without
\* records and with a continuation token: nothing was delivered and the
\* request of the second page, with that token, is about to be sent
C18_Witness ==
    /\ SYNC_MODE = "full"
    /\ service = "resourceContainers"
    /\ pc = "call"
    /\ nYields = 1
    /\ items = <<>>
    /\ response.data = <<>>
    /\ returned = <<TokenOf(1)>>
    /\ request.skip_token = TokenOf(1)
    /\ deliveries = <<>>
    /\ abortCause = None

(***************************************************************************)
(* C19: the operations of a full sync                                      *)
(***************************************************************************)
\* C19: with SYNC_MODE=full every send_webhook_data call of the run, made or
\* still to be awaited, has operation "upsert", whatever the changeType of
\* its record
C19_FullSyncOnlyUpserts ==
    SYNC_MODE = "full" =>
        /\ \A k \in DOMAIN deliveries : deliveries[k].operation = "upsert"
        /\ \A k \in DOMAIN tasks : tasks[k].operation = "upsert"

\* a full sync has delivered a page holding a record of changeType "Delete"
C19_Witness ==
    /\ SYNC_MODE = "full"
    /\ pc = "resume"
    /\ \E j \in DOMAIN items :
           /\ items[j].changeType = "Delete"
           /\ j \in DOMAIN deliveries
           /\ deliveries[j].id = items[j].resourceId
           /\ deliveries[j].operation = "upsert"

(***************************************************************************)
(* C20: a delivery answered with a client error                            *)
(***************************************************************************)
\* C20: a send_webhook_data call whose POST was answered with a 4xx status
\* has made exactly one attempt and has returned: it is not posted again
C20_ClientErrorNotRetried ==
    \A k \in DOMAIN tasks :
        tasks[k].outcome = "client_error" =>
            /\ tasks[k].attempts = 1
            /\ tasks[k].st = "returned"

\* the page has been left with one of its calls answered by a client error
\* after its single attempt, and the run goes on
C20_Witness ==
    /\ pc = "resume"
    /\ abortCause = None
    /\ \E k \in DOMAIN tasks :
           /\ tasks[k].outcome = "client_error"
           /\ tasks[k].attempts = 1
           /\ tasks[k].st = "returned"

(***************************************************************************)
(* C21: the rejections of the limiter do not show in the pages             *)
(***************************************************************************)
\* C21: against a fixed backend the k-th page run_query yields is the k-th
\* page of the backend and the generator ends after the last one, whichever
\* consume(1) calls were rejected: two runs that differ in the rejections
\* only yield the same pages; and no rejection ends the run with an error
C21_Step ==
    /\ (pc = "call" /\ pc' = "page") =>
           /\ nYields' \in 1..Len(backend)
           /\ items' = backend[nYields']
    /\ (pc = "resume" /\ (pc' = "batches" \/ nYields' = 0)) =>
           nYields = Len(backend)
    /\ pc' # "aborted"
    /\ abortCause' = None

C21_RejectionsInvisible == [][C21_Step]_vars

\* the second page of a backend, with records, yielded after a consume that
\* was rejected and a sleep
C21_Witness ==
    /\ pc = "page"
    /\ ~admitted
    /\ sleeps = 1
    /\ nYields = 2
    /\ items = backend[2]
    /\ items # <<>>
    /\ abortCause = None

(***************************************************************************)
(* C22: a client that was not initialized                                  *)
(***************************************************************************)
\* C22: on a client that was not initialized get_all_subscriptions and
\* run_query make no consume and no remote call, run_query yields no page,
\* and the only way they end is the "Azure client not initialized" error
C22_NotInitializedFailsFirst ==
    ~initialized =>
        /\ consumes = 0 /\ sleeps = 0 /\ tokens = LimiterCapacity
        /\ calls = <<>>
        /\ nYields = 0
        /\ all_subscriptions = <<>>
        /\ pc \in {"start", "consume", "aborted"}
        /\ pc = "aborted" => abortCause = "Azure client not initialized"

\* run_query on a client that was not initialized has raised
C22_Witness ==
    /\ ~initialized
    /\ service = "resources"
    /\ subscriptions # <<>>
    /\ pc = "aborted"
    /\ abortCause = "Azure client not initialized"
    /\ calls = <<>>

(***************************************************************************)
(* C23: a discovery that finds no subscription                             *)
(***************************************************************************)
\* C23: when get_all_subscriptions returns no subscription main returns at
\* once and without error: discovery runs once in a run, no query and no
\* delivery call has been made when main returns, and nothing follows
C23_Step ==
    /\ pc' # "start"
    /\ pc # "returned_empty"
    /\ (pc = "start" /\ pc' # "aborted" /\ all_subscriptions' = <<>>) =>
           /\ pc' = "returned_empty"
           /\ abortCause' = None
           /\ calls' = <<>> /\ nYields' = 0 /\ consumes' = 0
           /\ tasks' = <<>> /\ deliveries' = <<>>
           /\ permits' = SemaphoreSize
           /\ subscriptions_batches' = <<>>

C23_EmptyDiscoveryEndsRun == [][C23_Step]_vars

\* main has returned on an empty discovery
C23_Witness ==
    /\ pc = "returned_empty"
    /\ all_subscriptions = <<>>
    /\ abortCause = None
    /\ calls = <<>>
    /\ deliveries = <<>>

(***************************************************************************)
(* C24, C25: turn_sequence_to_chunks                                       *)
(***************************************************************************)
RECURSIVE Flatten(_)
Flatten(chunks) ==
    IF chunks = <<>> THEN <<>> ELSE Head(chunks) \o Flatten(Tail(chunks))

\* turn_sequence_to_chunks has run on the sequence and the chunk size of the
\* state, and the loop over its chunks has not taken any
Chunked == variant = "chunks" /\ pc = "batches"

\* C24: a sequence of length L >= 1 and a chunk size C >= 1 give ceil(L / C)
\* chunks, of C elements each but possibly the last, none empty, whose
\* concatenation is the sequence; L <= C gives the sequence as its one chunk
C24_ChunksCoverSequence ==
    (Chunked /\ Len(all_subscriptions) >= 1 /\ SUBSCRIPTION_BATCH_SIZE >= 1) =>
        LET L == Len(all_subscriptions)
            C == SUBSCRIPTION_BATCH_SIZE
            chunks == subscriptions_batches
        IN  /\ Len(chunks) = CeilDiv(L, C)
            /\ \A k \in 1..(Len(chunks) - 1) : Len(chunks[k]) = C
            /\ \A k \in DOMAIN chunks : chunks[k] # <<>> /\ Len(chunks[k]) <= C
            /\ Flatten(chunks) = all_subscriptions
            /\ L <= C => chunks = <<all_subscriptions>>

\* a sequence cut into full chunks and a shorter last one
C24_Witness ==
    /\ Chunked
    /\ Len(all_subscriptions) = MaxSeqLen
    /\ SUBSCRIPTION_BATCH_SIZE >= 2
    /\ Len(subscriptions_batches) >= 2
    /\ Len(subscriptions_batches[Len(subscriptions_batches)]) < SUBSCRIPTION_BATCH_SIZE
    /\ Flatten(subscriptions_batches) = all_subscriptions

\* C25: an empty sequence and a positive chunk size give one chunk, the
\* empty list; a sequence that is not empty and the chunk size 0 give no
\* chunk, so that the loop of main over the chunks processes none
C25_DegenerateChunks ==
    (variant = "chunks" /\ pc \in {"batches", "completed"}) =>
        /\ (all_subscriptions = <<>> /\ SUBSCRIPTION_BATCH_SIZE > 0
               /\ pc = "batches") =>
               subscriptions_batches = << <<>> >>
        /\ (all_subscriptions # <<>> /\ SUBSCRIPTION_BATCH_SIZE = 0) =>
               /\ subscriptions_batches = <<>>
               /\ subscriptions = <<>>
               /\ calls = <<>> /\ deliveries = <<>>

\* with the chunk size 0 the loop over the chunks of a sequence that is not
\* empty has ended without a chunk
C25_Witness ==
    /\ variant = "chunks"
    /\ pc = "completed"
    /\ SUBSCRIPTION_BATCH_SIZE = 0
    /\ Len(all_subscriptions) >= 2
    /\ subscriptions = <<>>

\* a tag of the row equals the value of the entry, case set aside
Matches(tags, entry) == Lower(TagValue(tags, entry.key)) = Lower(entry.value)

\* the row matches every include entry and no exclude entry
Accepted(f, tags) ==
    /\ \A i \in DOMAIN f.include : Matches(tags, f.include[i])
    /\ \A i \in DOMAIN f.exclude : ~Matches(tags, f.exclude[i])

Count(text, piece) == Cardinality({i \in DOMAIN text : text[i] = piece})

\* C26: the fragment the containers builder returns is one "| where" and a
\* condition, with one equality test per include entry and per exclude entry
\* and the exclude tests under one "not (", and a container passes it exactly
\* when its tags match every include entry and no exclude entry.
C26_ContainersClauseMeaning ==
    (pc = "containers" /\ has_filters(filters)) =>
        /\ WellFormed(fragment, "tags")
        /\ Count(fragment, "| where ") = 1
        /\ Count(fragment, " =~ ") = Len(filters.include) + Len(filters.exclude)
        /\ Count(fragment, "not (") = (IF filters.exclude = <<>> THEN 0 ELSE 1)
        /\ Count(fragment, " or ") =
               (IF filters.exclude = <<>> THEN 0 ELSE Len(filters.exclude) - 1)
        /\ Passing(fragment, "tags")
               = {tags \in TagAssignments : Accepted(filters, tags)}

\* two include entries and two exclude entries; one row passes, another is
\* excluded for matching one exclude entry only
C26_Witness ==
    /\ pc = "containers"
    /\ Len(filters.include) = 2 /\ Len(filters.exclude) = 2
    /\ \E tags \in TagAssignments : Passes(fragment, "tags", tags)
    /\ \E tags \in TagAssignments :
          /\ ~Passes(fragment, "tags", tags)
          /\ \A i \in DOMAIN filters.include : Matches(tags, filters.include[i])
          /\ Matches(tags, filters.exclude[1])
          /\ ~Matches(tags, filters.exclude[2])

\* C27: the containers builder returns the empty string exactly when the
\* include map and the exclude map are both empty; any other fragment is not
\* empty and starts with the where keyword.
C27_EmptyIffNoFilters ==
    (pc = "containers") =>
        /\ (fragment = <<>>) <=> (filters.include = <<>> /\ filters.exclude = <<>>)
        /\ fragment # <<>> => (Head(fragment) = "| where " /\ Len(fragment) > 1)

\* an exclude map alone gives a fragment
C27_Witness ==
    /\ pc = "containers"
    /\ filters.include = <<>> /\ filters.exclude # <<>>
    /\ fragment # <<>> /\ Head(fragment) = "| where "

\* the literals of a text, in the order they are read from position i on
RECURSIVE Literals(_, _)
Literals(text, i) ==
    IF i > Len(text) THEN <<>>
    ELSE IF text[i] = Quote
    THEN LET literal == read_literal(text, i + 1, <<>>)
         IN  IF literal.ok THEN <<literal.value>> \o Literals(text, literal.next)
             ELSE <<"unterminated">>
    ELSE Literals(text, i + 1)

\* key and value of every entry, in the order the builder emits them
RECURSIVE KeysAndValues(_)
KeysAndValues(m) ==
    IF m = <<>> THEN <<>>
    ELSE <<Head(m).key, Head(m).value>> \o KeysAndValues(Tail(m))

Quotes(text) == Cardinality({i \in DOMAIN text : text[i] = Quote})

\* C28: every single quote of a key or a value is emitted doubled, so that
\* no key and no value closes its literal early: the literals read from the
\* fragment are the keys and values as they were given, and the fragment
\* holds two quotes around each of them and two for each quote in them.
C28_QuotesDoubled ==
    (pc = "containers") =>
        LET given == KeysAndValues(filters.include) \o KeysAndValues(filters.exclude)
        IN  /\ Literals(fragment, 1) = given
            /\ has_filters(filters) => WellFormed(fragment, "tags")
            /\ Quotes(fragment) =
                   2 * Len(given) + 2 * Quotes(join("", given))

\* an include entry whose key ends and whose value starts with a quote: the
\* value 'w is emitted as ''w inside its literal
C28_Witness ==
    /\ pc = "containers"
    /\ \E i \in DOMAIN filters.include :
          /\ filters.include[i].key = <<"k", Quote>>
          /\ filters.include[i].value = <<Quote, "w">>
    /\ \E i \in DOMAIN fragment :
          /\ i + 4 <= Len(fragment)
          /\ fragment[i] = " =~ "
          /\ fragment[i + 1] = Quote /\ fragment[i + 2] = Quote
          /\ fragment[i + 3] = Quote /\ fragment[i + 4] = "w"

\* C29: the order the entries were inserted in does not matter: a filter
\* set with the same include and exclude entries in another order compiles
\* to a fragment that lets the same tag assignments pass.
C29_Step ==
    (pc' = "containers_again") =>
        Passing(fragment', "tags") = Passing(fragment, "tags")

C29_OrderIndependent == [][C29_Step]_vars

\* both maps reordered, the text of the fragment now another one
C29_Witness ==
    /\ pc = "containers_again"
    /\ Len(filters.include) = 2 /\ Len(filters.exclude) = 2
    /\ fragment # build_rg_tag_filter_clause_for_containers(
                      [include |-> Reordered(filters.include, <<2, 1>>),
                       exclude |-> Reordered(filters.exclude, <<2, 1>>)])

\* C30: the resources builder, handed a filter set, returns the empty string
\* for the empty set and otherwise one "| where" fragment on rgTags that a
\* resource passes exactly when its resource group matches every include
\* entry and no exclude entry, the exclude tests joined by "or" under one
\* "not (".
C30_ResourcesClauseMeaning ==
    (pc \in {"resources", "aborted"} /\ variant = "filters") =>
        /\ abortCause = None
        /\ ~has_filters(filters) => fragment = <<>>
        /\ has_filters(filters) =>
              /\ WellFormed(fragment, "rgTags")
              /\ Count(fragment, "| where ") = 1
              /\ Count(fragment, "not (") = (IF filters.exclude = <<>> THEN 0 ELSE 1)
              /\ Passing(fragment, "rgTags")
                     = {tags \in TagAssignments : Accepted(filters, tags)}

\* the positions 1..n, chunked as a sequence of n elements is
Positions(n) == [i \in 1..n |-> i]

NoneTwice(sequence) ==
    \A i, j \in DOMAIN sequence : sequence[i] = sequence[j] => i = j

\* C36: turn_sequence_to_chunks ends for every sequence and every chunk
\* size, positive, zero or negative, with at most one chunk per position
\* and one more, and no position of the sequence is yielded twice: the
\* chunks are slices of positions that are all different.
C36_ChunkingEndsWithoutRepeats ==
    Chunked =>
        LET slices == turn_sequence_to_chunks(Positions(Len(all_subscriptions)),
                                              SUBSCRIPTION_BATCH_SIZE)
        IN  /\ Len(subscriptions_batches) = Len(slices)
            /\ Len(slices) <= Len(all_subscriptions) + 1
            /\ \A k \in DOMAIN slices :
                   subscriptions_batches[k] =
                       [i \in DOMAIN slices[k] |-> all_subscriptions[slices[k][i]]]
            /\ NoneTwice(Flatten(slices))

\* a negative chunk size below -1: one chunk, the sequence without its
\* last elements
C36_Witness ==
    /\ Chunked
    /\ SUBSCRIPTION_BATCH_SIZE < 0 - 1
    /\ Len(all_subscriptions) = MaxSeqLen
    /\ subscriptions_batches =
           <<SubSeq(all_subscriptions, 1,
                    Len(all_subscriptions) + SUBSCRIPTION_BATCH_SIZE)>>
    /\ subscriptions_batches # << <<>> >>

(***************************************************************************)
(* C34, C35: the requests of run_query                                     *)
(***************************************************************************)
\* C34: every remote call of a run_query invocation carries the query text
\* and the subscription ids that were passed to run_query: the query of each
\* request is the original one (0 requests built around it), and the
\* request being made names the subscriptions of the invocation.
C34_SameQueryEveryCall ==
    /\ \A i \in DOMAIN calls : calls[i].query = 0
    /\ request # NoRequest => request.subscriptions = subscriptions

\* C35: the cursor does not cross run_query invocations: the first remote
\* call of every invocation carries no cursor, also when the invocation
\* before it on the same client was left with a cursor pending or was
\* aborted by an error.
C35_FirstCallWithoutCursor ==
    calls # <<>> => calls[1].skip_token = None

\* invocations before this one were handed a cursor by the backend and one
\* of them raised; the first call of this invocation has no cursor
C35_Witness ==
    /\ abortCause = "query"
    /\ pc = "page"
    /\ Len(calls) = 1
    /\ calls[1].skip_token = None
    /\ returned = <<TokenOf(1), TokenOf(1)>>

\* C37: the delivery semaphore leaks no permit: the permits that are free
\* and those held by the posts in flight are always all the permits of the
\* semaphore, so that with no post in flight every permit is free, whatever
\* returned or raised before.
C37_NoPermitLeak ==
    /\ permits + InFlight = SemaphoreSize
    /\ InFlight = 0 => permits = SemaphoreSize

\* the first wave of a page is done, a post of the second wave has raised,
\* and nothing is in flight any more
C37_Witness ==
    /\ InFlight = 0
    /\ permits = SemaphoreSize
    /\ wave >= 2
    /\ pc = "aborted"
    /\ \E k \in DOMAIN tasks : tasks[k].st = "raised" /\ tasks[k].wave = wave

\* C33 as claimed: with a non-empty set of discovered subscriptions, every
\* subscription gets exactly one upsert delivery of type "subscription": no
\* subscription is upserted twice, the subscriptions of a batch are upserted
\* and these deliveries are finished before the batch's query sequence is
\* opened, and a completed run has upserted each discovered subscription once.
C33_EverySubscriptionUpserted ==
    /\ \A j, k \in DOMAIN subscription_upserts :
           subscription_upserts[j] = subscription_upserts[k] => j = k
    /\ pc \notin {"start", "batches", "gather_subs", "returned_empty", "aborted"} =>
           /\ \A j \in DOMAIN subscriptions :
                  \E k \in DOMAIN subscription_upserts :
                      subscription_upserts[k] = subscriptions[j]
           /\ \A k \in DOMAIN tasks : tasks[k].type # "subscription"
    /\ pc = "completed" =>
           \A j \in DOMAIN all_subscriptions :
               \E k \in DOMAIN subscription_upserts :
                   subscription_upserts[k] = all_subscriptions[j]

\* C38: in process_subscriptions_into_change_tasks of the webhook
\* orchestrator, within a page no delete delivery has started (no POST of it
\* was attempted) before every upsert delivery of the page has returned.
C38_UpsertsBeforeDeletes ==
    variant = "webhook" =>
        \A j, k \in DOMAIN tasks :
            (/\ tasks[j].type = "resource" /\ tasks[k].type = "resource"
             /\ tasks[j].operation = "upsert" /\ tasks[k].operation = "delete"
             /\ tasks[k].attempts >= 1)
                => tasks[j].st = "returned"

\* a page with an upsert and a delete: the upsert has returned and the POST
\* of the delete is in flight
C38_Witness ==
    /\ variant = "webhook"
    /\ pc = "gather_deletes"
    /\ \E j, k \in DOMAIN tasks :
           /\ tasks[j].operation = "upsert" /\ tasks[j].st = "returned"
           /\ tasks[k].operation = "delete" /\ tasks[k].st = "inflight"

(***************************************************************************)
(* C32, C39: the orchestrator that keeps its sync stage in Port             *)
(***************************************************************************)
\* the upsert_data calls made for resource groups
GroupUpserts == SelectSeq(tasks, LAMBDA t : t.type = "resourceGroup")

\* C32 as claimed: the resource-group upserts derived from a page are
\* deduplicated within the page: no (resourceGroup, subscriptionId) pair is
\* upserted twice, and every pair of the page is upserted.
C32_GroupUpsertsDeduplicated ==
    /\ \A j, k \in DOMAIN GroupUpserts :
           GroupUpserts[j].id = GroupUpserts[k].id => j = k
    /\ pc = "gather_groups" =>
           {GroupUpserts[k].id : k \in DOMAIN GroupUpserts}
               = {<<items[k].resourceGroup, items[k].subscriptionId>> :
                      k \in DOMAIN items}

\* what a step may do to the state entity kept in Port
C39_Step ==
    /\ port_state' # port_state =>
           \/ pc = "start" /\ port_state = Absent /\ port_state' = STATE_DATA
           \/ /\ port_state' = "SUBSEQUENT"
              /\ pc = "batches" /\ abortCause = None
              /\ subscriptions_batches = <<>>
              /\ subscription_upserts = all_subscriptions
              /\ \A k \in DOMAIN tasks : tasks[k].st = "returned"
    /\ pc = "aborted" => port_state' = port_state
    /\ port_state = "SUBSEQUENT" => port_state' = "SUBSEQUENT"

\* C39: the state entity is set to SUBSEQUENT only once every batch has been
\* taken and all its deliveries have returned; a run in which a query or a
\* delivery raised leaves it as it was; over the runs it never goes back from
\* SUBSEQUENT to INITIAL.
C39_StateWrittenLast == [][C39_Step]_vars

\* a first run that was aborted by a delivery and left the state INITIAL, and
\* a second run that went through its batches and wrote SUBSEQUENT
C39_Witness ==
    /\ runs = 2
    /\ pc = "completed"
    /\ state = "INITIAL" /\ port_state = "SUBSEQUENT"
    /\ all_subscriptions # <<>>
    /\ subscription_upserts = all_subscriptions

(***************************************************************************)
(* C31, C40: the filters read from RESOURCE_GROUP_TAG_FILTERS               *)
(***************************************************************************)
\* the setting as JSON reads it
Read == json_loads(RESOURCE_GROUP_TAG_FILTERS.text)

HasKey(d, k) == \E j \in DOMAIN d.members : d.members[j].key = k

IsStringMap(v) ==
    /\ v.kind = "object"
    /\ \A j \in DOMAIN v.members : v.members[j].val.kind = "string"

\* get_resource_group_tag_filters has returned
Returned == variant = "settings" /\ pc \in {"filtering", "containers"}

\* C31 as claimed: get_resource_group_tag_filters never raises; it returns the
\* empty filter set when the setting is unset, is not valid JSON, is not an
\* object, or has an include or exclude field that is not a map of strings to
\* strings, and the include and exclude maps of the object otherwise.
C31_FiltersTotal ==
    variant = "settings" =>
        /\ abortCause = None
        /\ Returned =>
               IF \/ ~RESOURCE_GROUP_TAG_FILTERS.set
                  \/ Read.err # None
                  \/ Read.val.kind # "object"
                  \/ \E k \in FilterKeys :
                         HasKey(Read.val, k) /\ ~IsStringMap(dict_get(Read.val, k, JNull))
               THEN filters = NoFilters
               ELSE filters =
                        [include |-> items_of(dict_get(Read.val, <<"include">>, JObject(<<>>))),
                         exclude |-> items_of(dict_get(Read.val, <<"exclude">>, JObject(<<>>)))]

\* the object a text of members stands for: the last value of a key counts
RECURSIVE Merged(_)
Merged(ms) ==
    IF ms = <<>> THEN <<>>
    ELSE dict_set(Merged(SubSeq(ms, 1, Len(ms) - 1)), ms[Len(ms)].key, ms[Len(ms)].val)

\* the setting is the text of an object whose include or exclude field is
\* there and is not an object, or holds a value that is not a string
MalformedField ==
    /\ RESOURCE_GROUP_TAG_FILTERS.set
    /\ \E d \in Documents :
           /\ d.kind = "object"
           /\ RESOURCE_GROUP_TAG_FILTERS.text = dumps(d)
           /\ \E k \in FilterKeys :
                  /\ HasKey(d, k)
                  /\ ~IsStringMap(dict_get(JObject(Merged(d.members)), k, JNull))

\* C40 as claimed: the setting is validated as a whole; when either field is
\* malformed, get_resource_group_tag_filters returns the empty filter set,
\* whatever the other field holds.
C40_MalformedFieldDiscardsBoth ==
    (variant = "settings" /\ pc # "settings" /\ MalformedField) =>
        /\ Returned
        /\ filters = NoFilters

====
